---------------------------- MODULE Spec2Model ----------------------------
(***************************************************************************)
(* Tip splitter: proportional tip allocation and the shift-record          *)
(* lifecycle (MemStorage, the Express routes, the NewShift / Results /     *)
(* EditShift pages).                                                       *)
(*                                                                         *)
(* Numbers.  A JavaScript number is modelled as an extended rational       *)
(* [n |-> numerator, d |-> denominator] in lowest terms with d >= 0:       *)
(* d = 0 encodes the non-finite values, NaN = 0/0, Infinity = 1/0 and      *)
(* -Infinity = -1/0.  Finite arithmetic is exact; the rounding of IEEE     *)
(* doubles (relative error 2^-53, far below every tolerance the program    *)
(* compares against at the magnitudes used here) is not modelled.          *)
(*                                                                         *)
(* Strings.  A text field that holds a number ("", "100") is the empty     *)
(* sequence or a one-element sequence holding the number, so that the      *)
(* truthiness of the string and parseFloat of it stay distinct.  A time    *)
(* of day "HH:MM" is likewise <<>> or <<minutes since midnight>>.          *)
(***************************************************************************)
EXTENDS Integers, Sequences, FiniteSets, TLC

VARIABLES
    args,             \* arguments of the allocation call under study
    ret,              \* what the last allocation call returned
    storage,          \* server: the MemStorage singleton
    lastWrite,        \* history: per shift id, the last write request that persisted it
    deleted,          \* history: the shift ids removed by deleteShift
    page,             \* client: the mounted page
    shiftDraft,       \* client: the shift state of the mounted NewShift or EditShift page
    shiftQuery,       \* client: the data of the EditShift page's shift query, <<>> before it arrives
    restaurantStore   \* client: useRestaurantStore (shiftTypes, positions)

allocVars == <<args, ret>>
serverVars == <<storage, lastWrite, deleted>>
clientVars == <<page, shiftDraft, shiftQuery, restaurantStore>>
vars == <<args, ret, storage, lastWrite, deleted, page, shiftDraft,
          shiftQuery, restaurantStore>>

---------------------------------------------------------------------------
(* JavaScript numbers                                                      *)

Abs(x) == IF x < 0 THEN -x ELSE x

Sgn(x) == IF x < 0 THEN -1 ELSE IF x > 0 THEN 1 ELSE 0

RECURSIVE GCD(_, _)
GCD(a, b) == IF b = 0 THEN a ELSE GCD(b, a % b)

Norm(n, d) ==
    IF d = 0 THEN [n |-> Sgn(n), d |-> 0]
    ELSE LET g == GCD(Abs(n), Abs(d))
             s == Sgn(d)
         IN  [n |-> (s * n) \div g, d |-> (s * d) \div g]

R(i) == [n |-> i, d |-> 1]

NaN == [n |-> 0, d |-> 0]

IsNaN(x) == x.n = 0 /\ x.d = 0

IsFinite(x) == x.d # 0

RNeg(x) == [n |-> -x.n, d |-> x.d]

RAdd(a, b) ==
    IF IsNaN(a) \/ IsNaN(b) THEN NaN
    ELSE IF a.d = 0 /\ b.d = 0 THEN (IF a.n = b.n THEN a ELSE NaN)
    ELSE IF a.d = 0 THEN a
    ELSE IF b.d = 0 THEN b
    ELSE Norm(a.n * b.d + b.n * a.d, a.d * b.d)

RSub(a, b) == RAdd(a, RNeg(b))

RMul(a, b) == Norm(a.n * b.n, a.d * b.d)

RDiv(a, b) == Norm(a.n * b.d, a.d * b.n)

RAbs(x) == [n |-> Abs(x.n), d |-> x.d]

\* a < b; false when either side is NaN
RLt(a, b) ==
    /\ ~IsNaN(a)
    /\ ~IsNaN(b)
    /\ IF a.d = 0 /\ b.d = 0 THEN a.n < b.n
       ELSE IF a.d = 0 THEN a.n < 0
       ELSE IF b.d = 0 THEN b.n > 0
       ELSE a.n * b.d < b.n * a.d

\* x === 0
IsZero(x) == x.n = 0 /\ x.d # 0

\* truthiness of a number: 0 and NaN are falsy
Truthy(x) == x.n # 0

\* x || dflt
OrElse(x, dflt) == IF Truthy(x) THEN x ELSE dflt

\* parseFloat of a numeric text field: "" parses to NaN
parseFloat(s) == IF s = <<>> THEN NaN ELSE s[1]

\* the validation tolerance, 0.02
Tolerance == Norm(2, 100)

RECURSIVE SumOver(_, _)
\* seq.reduce((sum, x) => sum + x, 0) over a sequence of numbers
SumOver(seq, i) ==
    IF i = 0 THEN R(0) ELSE RAdd(SumOver(seq, i - 1), seq[i])

Map(seq, F(_)) == [i \in 1..Len(seq) |-> F(seq[i])]

---------------------------------------------------------------------------
(* Reference data seeded by the MemStorage constructor                     *)

SeedEmployees ==
    { [id |-> 1, employeeId |-> 3,  firstName |-> "Johnny", lastName |-> "M", positions |-> <<"Bartender">>],
      [id |-> 2, employeeId |-> 15, firstName |-> "Harold", lastName |-> "Z", positions |-> <<"Server">>],
      [id |-> 3, employeeId |-> 30, firstName |-> "Andrew", lastName |-> "P", positions |-> <<"Server">>],
      [id |-> 4, employeeId |-> 21, firstName |-> "Drake",  lastName |-> "S", positions |-> <<"Server">>],
      [id |-> 5, employeeId |-> 4,  firstName |-> "Nick",   lastName |-> "A", positions |-> <<"Server">>],
      [id |-> 6, employeeId |-> 36, firstName |-> "Diana",  lastName |-> "M", positions |-> <<"Expo">>],
      [id |-> 7, employeeId |-> 16, firstName |-> "Fred",   lastName |-> "P", positions |-> <<"Runner">>],
      [id |-> 8, employeeId |-> 29, firstName |-> "Deblyn", lastName |-> "N", positions |-> <<"Busser">>],
      [id |-> 9, employeeId |-> 5,  firstName |-> "Louis",  lastName |-> "C", positions |-> <<"Busser">>] }

\* Array.find over the values of a Map: the first match in insertion order,
\* which is the order of the record ids
FindFirst(S, P(_)) ==
    LET hits == { x \in S : P(x) }
    IN  IF hits = {} THEN <<>>
        ELSE <<CHOOSE x \in hits : \A y \in hits : x.id <= y.id>>

\* `${employee.firstName} ${employee.lastName}`
FullName(e) == <<e.firstName, e.lastName>>

\* `Employee #${employeeId}`
FallbackName(employeeId) == <<"Employee #", ToString(employeeId)>>

---------------------------------------------------------------------------
(* The tip allocator: client utility and server route                      *)

\* employees.reduce((sum, employee) => sum + (employee.points || 0), 0)
\* mutation: only the first line is counted
calculateTotalPoints_FirstOnly(employees) ==
    IF Len(employees) = 0 THEN R(0) ELSE OrElse(employees[1].points, R(0))

calculateTotalPoints(employees) ==
    SumOver(Map(employees, LAMBDA e : OrElse(e.points, R(0))), Len(employees))

\* mutation: every line is given the whole of each pool
AllocateLine_Flat(e, totalPoints, digitalTipsTotal, cashTipsTotal) ==
    [employeeId |-> e.employeeId,
     position |-> e.position,
     hours |-> e.hoursWorked,
     points |-> e.points,
     digitalTips |-> digitalTipsTotal,
     cashTips |-> cashTipsTotal]

\* mutation: every amount cut down to whole cents
AllocateLine_Cents(e, totalPoints, digitalTipsTotal, cashTipsTotal) ==
    LET pointShare == RDiv(e.points, totalPoints)
        Cents(x) == IF IsFinite(x) THEN Norm((x.n * 100) \div x.d, 100) ELSE x
    IN  [employeeId |-> e.employeeId,
         position |-> e.position,
         hours |-> e.hoursWorked,
         points |-> e.points,
         digitalTips |-> Cents(RMul(digitalTipsTotal, pointShare)),
         cashTips |-> Cents(RMul(cashTipsTotal, pointShare))]

\* employees.map(...) body shared by the client utility and the server route
AllocateLine(e, totalPoints, digitalTipsTotal, cashTipsTotal) ==
    LET pointShare == RDiv(e.points, totalPoints)
    IN  [employeeId |-> e.employeeId,
         position |-> e.position,
         hours |-> e.hoursWorked,
         points |-> e.points,
         digitalTips |-> RMul(digitalTipsTotal, pointShare),
         cashTips |-> RMul(cashTipsTotal, pointShare)]

SumDigital(results) ==
    SumOver(Map(results, LAMBDA r : r.digitalTips), Len(results))

SumCash(results) ==
    SumOver(Map(results, LAMBDA r : r.cashTips), Len(results))

\* Math.abs(total - distributed) < 0.02
WithinTolerance(total, distributed) ==
    RLt(RAbs(RSub(total, distributed)), Tolerance)

calculateEmployeeTips(employees, digitalTipsTotal, cashTipsTotal) ==
    LET totalPoints == calculateTotalPoints(employees)
    IN  IF IsZero(totalPoints)
        THEN [results |-> <<>>, validation |-> [digital |-> TRUE, cash |-> TRUE]]
        ELSE LET results == Map(employees,
                     LAMBDA e : AllocateLine(e, totalPoints, digitalTipsTotal, cashTipsTotal))
             IN  [results |-> results,
                  validation |->
                      [digital |-> WithinTolerance(digitalTipsTotal, SumDigital(results)),
                       cash |-> WithinTolerance(cashTipsTotal, SumCash(results))]]

\* shiftData.employees.reduce((sum, emp) => sum + emp.points, 0)
RouteTotalPoints(employees) ==
    SumOver(Map(employees, LAMBDA e : e.points), Len(employees))

\* mutation: the house tips left out of the digital pool
RouteDigitalPool_NoHouse(shiftData) == shiftData.creditCardTips

\* const digitalTips = shiftData.creditCardTips + shiftData.houseTips
RouteDigitalPool(shiftData) == RAdd(shiftData.creditCardTips, shiftData.houseTips)

\* mutation: the zero-total guard dropped
RouteRejectsTotal_Never(totalPoints) == FALSE

\* if (totalPoints === 0) return res.status(400)
RouteRejectsTotal(totalPoints) == IsZero(totalPoints)

\* POST /api/calculate-tips
CalculateTipsRoute(shiftData, storedEmployees) ==
    LET totalPoints == RouteTotalPoints(shiftData.employees)
        digitalTips == RouteDigitalPool(shiftData)
        cashTips == shiftData.cashTips
        WithName(r) ==
            LET employee == FindFirst(storedEmployees, LAMBDA e : e.employeeId = r.employeeId)
            IN  [employeeId |-> r.employeeId, position |-> r.position,
                 hours |-> r.hours, points |-> r.points,
                 digitalTips |-> r.digitalTips, cashTips |-> r.cashTips,
                 name |-> IF employee # <<>> THEN FullName(employee[1])
                          ELSE FallbackName(r.employeeId)]
    IN  IF RouteRejectsTotal(totalPoints)
        THEN [status |-> 400, results |-> <<>>]
        ELSE [status |-> 200,
              results |-> Map(Map(shiftData.employees,
                                  LAMBDA e : AllocateLine(e, totalPoints, digitalTips, cashTips)),
                              WithName)]

\* Results page: calculateTotals over the stored draft,
\* parseFloat(shift.creditCardTips || 0) + parseFloat(shift.houseTips || 0)
calculateTotals(shift) ==
    [digitalTips |-> RAdd(parseFloat(IF shift.creditCardTips = <<>> THEN <<R(0)>> ELSE shift.creditCardTips),
                          parseFloat(IF shift.houseTips = <<>> THEN <<R(0)>> ELSE shift.houseTips)),
     cashTips |-> parseFloat(IF shift.cashTips = <<>> THEN <<R(0)>> ELSE shift.cashTips)]

\* Results page: validateDistribution
validateDistribution(shift, results) ==
    LET totals == calculateTotals(shift)
    IN  [digital |-> WithinTolerance(totals.digitalTips, SumDigital(results)),
         cash |-> WithinTolerance(totals.cashTips, SumCash(results))]

---------------------------------------------------------------------------
(* MemStorage                                                              *)

SeedShiftTypes ==
    { [id |-> 1, name |-> "Lunch"], [id |-> 2, name |-> "Dinner"], [id |-> 3, name |-> "Brunch"] }

SeedPositions ==
    { [id |-> 1, name |-> "Server", pointValue |-> R(1)],
      [id |-> 2, name |-> "Bartender", pointValue |-> R(1)],
      [id |-> 3, name |-> "Busser", pointValue |-> Norm(55, 100)],
      [id |-> 4, name |-> "Runner", pointValue |-> Norm(65, 100)],
      [id |-> 5, name |-> "Expo", pointValue |-> Norm(75, 100)] }

\* new MemStorage(): the empty maps, the id counters at 1, then the seed data
InitStorage ==
    [restaurantConfig |-> { [id |-> 1, name |-> "My Restaurant"] },
     shiftTypes |-> SeedShiftTypes,
     positions |-> SeedPositions,
     employees |-> SeedEmployees,
     shifts |-> {},
     shiftEmployees |-> {},
     currentIds |-> [restaurantConfig |-> 2, shiftType |-> 4, position |-> 6,
                     employee |-> 10, shift |-> 1, shiftEmployee |-> 1]]

RECURSIVE ById(_)
\* Array.from(map.values()): the values in insertion order, which is id order
ById(S) ==
    IF S = {} THEN <<>>
    ELSE LET m == CHOOSE x \in S : \A y \in S : x.id <= y.id
         IN  <<m>> \o ById(S \ {m})

\* this.shifts.get(id), as a sequence of zero or one shift
getShift(st, id) == ById({ sh \in st.shifts : sh.id = id })

\* this.employees.get(id)
getEmployee(st, id) == ById({ e \in st.employees : e.id = id })

getEmployeeByEmployeeId(st, employeeId) ==
    FindFirst(st.employees, LAMBDA e : e.employeeId = employeeId)

getShiftEmployees(st, shiftId) ==
    ById({ se \in st.shiftEmployees : se.shiftId = shiftId })

\* the TipDistributionResult pushed for a line whose employee is found
LineResult(st, se) ==
    LET employee == getEmployeeByEmployeeId(st, se.employeeId)
    IN  [employeeId |-> employee[1].employeeId,
         name |-> FullName(employee[1]),
         position |-> se.position,
         hours |-> se.hoursWorked,
         points |-> se.points,
         digitalTips |-> se.digitalTips,
         cashTips |-> se.cashTips]

\* the results loop of addShift, updateShift and getShiftResults:
\* a line whose employee is not found is skipped
LineResults(st, lines) ==
    Map(SelectSeq(lines, LAMBDA se : getEmployeeByEmployeeId(st, se.employeeId) # <<>>),
        LAMBDA se : LineResult(st, se))

getShiftResults(st, shiftId) == LineResults(st, getShiftEmployees(st, shiftId))

RECURSIVE ByCreatedAtDesc(_)
\* getShifts: sorted by createdAt, newest first; createdAt is a logical clock
ByCreatedAtDesc(S) ==
    IF S = {} THEN <<>>
    ELSE LET m == CHOOSE x \in S : \A y \in S : x.createdAt >= y.createdAt
         IN  <<m>> \o ByCreatedAtDesc(S \ {m})

getShifts(st) == ByCreatedAtDesc(st.shifts)

getShiftWithEmployeeCount(st) ==
    Map(getShifts(st),
        LAMBDA sh : [shift |-> sh, employeeCount |-> Len(getShiftEmployees(st, sh.id))])

\* the ShiftEmployee rows built from the request rows: { ...employeeData, id: seId, shiftId: id }
NewShiftEmployees(st, id, shiftEmployeesData) ==
    [i \in 1..Len(shiftEmployeesData) |->
        [id |-> st.currentIds.shiftEmployee + i - 1,
         shiftId |-> id,
         employeeId |-> shiftEmployeesData[i].employeeId,
         position |-> shiftEmployeesData[i].position,
         pointValue |-> shiftEmployeesData[i].pointValue,
         clockIn |-> shiftEmployeesData[i].clockIn,
         clockOut |-> shiftEmployeesData[i].clockOut,
         hoursWorked |-> shiftEmployeesData[i].hoursWorked,
         points |-> shiftEmployeesData[i].points,
         digitalTips |-> shiftEmployeesData[i].digitalTips,
         cashTips |-> shiftEmployeesData[i].cashTips]]

Range(seq) == { seq[i] : i \in 1..Len(seq) }

\* this.currentIds.shift++ leaves the counter one higher
\* mutation: the shift counter does not advance
NextShiftId_Stuck(st) == st.currentIds.shift

NextShiftId(st) == st.currentIds.shift + 1

addShift(st, shiftData, shiftEmployeesData) ==
    LET id == st.currentIds.shift
        newShift == [id |-> id, date |-> shiftData.date, type |-> shiftData.type,
                     creditCardTips |-> shiftData.creditCardTips,
                     houseTips |-> shiftData.houseTips,
                     cashTips |-> shiftData.cashTips,
                     createdAt |-> id]
        rows == NewShiftEmployees(st, id, shiftEmployeesData)
        st2 == [st EXCEPT !.shifts = { sh \in @ : sh.id # id } \cup {newShift},
                          !.shiftEmployees = @ \cup Range(rows),
                          !.currentIds.shift = NextShiftId(st),
                          !.currentIds.shiftEmployee = @ + Len(rows)]
    IN  [st |-> st2, shift |-> newShift, results |-> LineResults(st2, rows)]

\* updateShift for an id that is stored (the caller has checked it)
updateShift(st, id, shiftData, shiftEmployeesData) ==
    LET existingShift == getShift(st, id)[1]
        updatedShift == [existingShift EXCEPT
                            !.date = shiftData.date, !.type = shiftData.type,
                            !.creditCardTips = shiftData.creditCardTips,
                            !.houseTips = shiftData.houseTips,
                            !.cashTips = shiftData.cashTips]
        rows == NewShiftEmployees(st, id, shiftEmployeesData)
        st2 == [st EXCEPT !.shifts = { sh \in @ : sh.id # id } \cup {updatedShift},
                          !.shiftEmployees = { se \in @ : se.shiftId # id } \cup Range(rows),
                          !.currentIds.shiftEmployee = @ + Len(rows)]
    IN  [st |-> st2, shift |-> updatedShift, results |-> LineResults(st2, rows)]

\* mutation: the lines of the shift are left behind
deleteShift_NoCascade(st, id) ==
    [st EXCEPT !.shifts = { sh \in @ : sh.id # id }]

deleteShift(st, id) ==
    [st EXCEPT !.shifts = { sh \in @ : sh.id # id },
               !.shiftEmployees = { se \in @ : se.shiftId # id }]

updatePosition(st, id, position) ==
    [st EXCEPT !.positions =
        { IF p.id = id THEN [p EXCEPT !.name = position.name, !.pointValue = position.pointValue]
          ELSE p : p \in @ }]

addPosition(st, position) ==
    [st EXCEPT !.positions = @ \cup { [id |-> st.currentIds.position,
                                       name |-> position.name,
                                       pointValue |-> position.pointValue] },
               !.currentIds.position = @ + 1]

deletePosition(st, id) == [st EXCEPT !.positions = { p \in @ : p.id # id }]

updateShiftType(st, id, shiftType) ==
    [st EXCEPT !.shiftTypes =
        { IF t.id = id THEN [t EXCEPT !.name = shiftType.name] ELSE t : t \in @ }]

addShiftType(st, shiftType) ==
    [st EXCEPT !.shiftTypes = @ \cup { [id |-> st.currentIds.shiftType,
                                        name |-> shiftType.name] },
               !.currentIds.shiftType = @ + 1]

deleteShiftType(st, id) == [st EXCEPT !.shiftTypes = { t \in @ : t.id # id }]

\* getRestaurantConfig then updateRestaurantConfig(config.id, { name })
updateRestaurantConfig(st, restaurant) ==
    [st EXCEPT !.restaurantConfig =
        { IF \A d \in @ : c.id <= d.id THEN [c EXCEPT !.name = restaurant.name] ELSE c
          : c \in @ }]

\* addEmployee: the record gets the next employee record id
addEmployee(st, employee) ==
    LET id == st.currentIds.employee
        newEmployee == [id |-> id, employeeId |-> employee.employeeId,
                        firstName |-> employee.firstName, lastName |-> employee.lastName,
                        positions |-> employee.positions]
    IN  [st EXCEPT !.employees = { e \in @ : e.id # id } \cup {newEmployee},
                   !.currentIds.employee = @ + 1]

\* updateEmployee for a record id that is stored (the caller has checked it)
updateEmployee(st, id, employee) ==
    LET updatedEmployee == [id |-> id, employeeId |-> employee.employeeId,
                            firstName |-> employee.firstName,
                            lastName |-> employee.lastName,
                            positions |-> employee.positions]
    IN  [st EXCEPT !.employees = { e \in @ : e.id # id } \cup {updatedEmployee}]

deleteEmployee(st, id) == [st EXCEPT !.employees = { e \in @ : e.id # id }]

---------------------------------------------------------------------------
(* The Express routes over the storage                                     *)

\* a number as it arrives after JSON transport and parseFloat: JSON.stringify
\* writes NaN and the infinities as null, and parseFloat(null) is NaN
JsonNumber(x) == IF IsFinite(x) THEN x ELSE NaN

\* shift.employees.find(e => e.employeeId === result.employeeId)
FindByEmployeeId(lines, employeeId) ==
    LET hits == { i \in 1..Len(lines) : lines[i].employeeId = employeeId }
    IN  IF hits = {} THEN <<>>
        ELSE <<lines[CHOOSE i \in hits : \A j \in hits : i <= j]>>

\* "00:00"
Midnight == <<0>>

\* found?.clockIn || "00:00" and found?.clockOut || "00:00"
TimeOrMidnight(found, field) ==
    IF found = <<>> THEN Midnight
    ELSE IF found[1][field] = <<>> THEN Midnight
    ELSE found[1][field]

\* POST /api/shifts: the rows prepared from the request's results
SaveRows(shift, results) ==
    Map(results, LAMBDA result :
        LET found == FindByEmployeeId(shift.employees, result.employeeId)
        IN  [employeeId |-> result.employeeId,
             position |-> result.position,
             pointValue |-> RDiv(result.points, result.hours),
             clockIn |-> TimeOrMidnight(found, "clockIn"),
             clockOut |-> TimeOrMidnight(found, "clockOut"),
             hoursWorked |-> result.hours,
             points |-> result.points,
             digitalTips |-> result.digitalTips,
             cashTips |-> result.cashTips])

\* the shiftData both write routes build: parseFloat of each pool
ParsedShiftData(shift) ==
    [date |-> shift.date, type |-> shift.type,
     creditCardTips |-> parseFloat(shift.creditCardTips),
     houseTips |-> parseFloat(shift.houseTips),
     cashTips |-> parseFloat(shift.cashTips)]

\* POST /api/shifts.  A body without shift or without results makes the
\* handler throw before addShift is called, which the catch answers with 500.
PostShiftsRoute(st, body) ==
    IF ~body.hasShift \/ ~body.hasResults
    THEN [st |-> st, status |-> 500, shift |-> <<>>, results |-> <<>>]
    ELSE LET saved == addShift(st, ParsedShiftData(body.shift),
                               SaveRows(body.shift, body.results))
         IN  [st |-> saved.st, status |-> 201,
              shift |-> <<saved.shift>>, results |-> saved.results]

\* PUT /api/shifts/:id: the rows prepared from the request's employees
UpdateRows(employees) ==
    Map(employees, LAMBDA employee :
        [employeeId |-> employee.employeeId,
         position |-> employee.position,
         pointValue |-> JsonNumber(employee.pointValue),
         clockIn |-> employee.clockIn,
         clockOut |-> employee.clockOut,
         hoursWorked |-> JsonNumber(employee.hoursWorked),
         points |-> JsonNumber(employee.points),
         digitalTips |-> R(0),
         cashTips |-> R(0)])

\* PUT /api/shifts/:id
PutShiftRoute(st, id, body) ==
    IF getShift(st, id) = <<>>
    THEN [st |-> st, status |-> 404, shift |-> <<>>, results |-> <<>>]
    ELSE LET updated == updateShift(st, id, ParsedShiftData(body.shift),
                                    UpdateRows(body.employees))
         IN  [st |-> updated.st, status |-> 200,
              shift |-> <<updated.shift>>, results |-> updated.results]

\* mutation: the existence check dropped
DeleteShiftRoute_Any(st, id) == [st |-> deleteShift(st, id), status |-> 204]

\* DELETE /api/shifts/:id
DeleteShiftRoute(st, id) ==
    IF getShift(st, id) = <<>>
    THEN [st |-> st, status |-> 404]
    ELSE [st |-> deleteShift(st, id), status |-> 204]

\* GET /api/shifts/:id: each result joined with the first stored line of the
\* same employeeId
GetShiftRoute(st, id) ==
    IF getShift(st, id) = <<>>
    THEN [status |-> 404, shift |-> <<>>, results |-> <<>>]
    ELSE LET shiftEmployees == getShiftEmployees(st, id)
             Enhanced(result) ==
                 LET found == FindByEmployeeId(shiftEmployees, result.employeeId)
                 IN  [employeeId |-> result.employeeId, name |-> result.name,
                      position |-> result.position, hours |-> result.hours,
                      points |-> result.points,
                      digitalTips |-> result.digitalTips, cashTips |-> result.cashTips,
                      clockIn |-> TimeOrMidnight(found, "clockIn"),
                      clockOut |-> TimeOrMidnight(found, "clockOut"),
                      pointValue |-> IF found = <<>> THEN R(1)
                                     ELSE OrElse(found[1].pointValue, R(1))]
         IN  [status |-> 200, shift |-> getShift(st, id),
              results |-> Map(getShiftResults(st, id), Enhanced)]

\* GET /api/shifts
ListShiftsRoute(st) == getShiftWithEmployeeCount(st)

\* mutation: the duplicate check dropped
PostEmployeeRoute_NoCheck(st, body) ==
    IF ~body.valid THEN [st |-> st, status |-> 400]
    ELSE [st |-> addEmployee(st, body.employee), status |-> 201]

\* POST /api/employees; a body the schema refuses is answered 400
PostEmployeeRoute(st, body) ==
    IF ~body.valid THEN [st |-> st, status |-> 400]
    ELSE IF getEmployeeByEmployeeId(st, body.employee.employeeId) # <<>>
    THEN [st |-> st, status |-> 400]
    ELSE [st |-> addEmployee(st, body.employee), status |-> 201]

\* PUT /api/employees/:id
PutEmployeeRoute(st, id, body) ==
    IF ~body.valid THEN [st |-> st, status |-> 400]
    ELSE IF getEmployee(st, id) = <<>> THEN [st |-> st, status |-> 404]
    ELSE IF /\ body.employee.employeeId # getEmployee(st, id)[1].employeeId
            /\ getEmployeeByEmployeeId(st, body.employee.employeeId) # <<>>
    THEN [st |-> st, status |-> 400]
    ELSE [st |-> updateEmployee(st, id, body.employee), status |-> 200]

\* DELETE /api/employees/:id
DeleteEmployeeRoute(st, id) ==
    IF getEmployee(st, id) = <<>>
    THEN [st |-> st, status |-> 404]
    ELSE [st |-> deleteEmployee(st, id), status |-> 204]

RECURSIVE SetupPositions(_, _, _, _)
\* POST /api/setup, the positions loop from entry i on: an entry whose id is
\* among the remaining current ids updates that position, an entry without
\* id (0) adds one, any other entry is skipped; the ids left over are deleted
SetupPositions(st, positionIds, positions, i) ==
    IF i > Len(positions)
    THEN [st EXCEPT !.positions = { p \in @ : p.id \notin positionIds }]
    ELSE LET position == positions[i]
         IN  IF position.id # 0 /\ position.id \in positionIds
             THEN SetupPositions(updatePosition(st, position.id, position),
                                 positionIds \ {position.id}, positions, i + 1)
             ELSE IF position.id = 0
             THEN SetupPositions(addPosition(st, position), positionIds, positions, i + 1)
             ELSE SetupPositions(st, positionIds, positions, i + 1)

RECURSIVE SetupShiftTypes(_, _, _, _)
\* POST /api/setup, the shift types loop, of the same shape
SetupShiftTypes(st, shiftTypeIds, shiftTypes, i) ==
    IF i > Len(shiftTypes)
    THEN [st EXCEPT !.shiftTypes = { t \in @ : t.id \notin shiftTypeIds }]
    ELSE LET shiftType == shiftTypes[i]
         IN  IF shiftType.id # 0 /\ shiftType.id \in shiftTypeIds
             THEN SetupShiftTypes(updateShiftType(st, shiftType.id, shiftType),
                                  shiftTypeIds \ {shiftType.id}, shiftTypes, i + 1)
             ELSE IF shiftType.id = 0
             THEN SetupShiftTypes(addShiftType(st, shiftType), shiftTypeIds, shiftTypes, i + 1)
             ELSE SetupShiftTypes(st, shiftTypeIds, shiftTypes, i + 1)

\* POST /api/setup with a body that passes the zod schemas
SetupRoute(st, body) ==
    LET st1 == updateRestaurantConfig(st, body.restaurant)
        st2 == SetupShiftTypes(st1, { t.id : t \in st1.shiftTypes }, body.shiftTypes, 1)
        st3 == SetupPositions(st2, { p.id : p \in st2.positions }, body.positions, 1)
    IN  [st |-> st3, status |-> 200]

\* GET /api/setup
GetSetupRoute(st) ==
    [restaurant |-> ById(st.restaurantConfig)[1],
     shiftTypes |-> ById(st.shiftTypes), positions |-> ById(st.positions)]

---------------------------------------------------------------------------
(* Client: time and draft helpers                                          *)

\* the default of the roundingMinutes parameter
DefaultRoundingMinutes == 15

\* The rounding step of calculateHoursWorked decides on a quotient of doubles,
\* and the decision can differ from the one exact arithmetic takes.  A positive
\* double is kept here as [m, e], value m * 2^e, m a sequence of MantissaBits
\* bits, most significant first and leading with 1; zero is [m |-> <<>>, e |-> 0].
MantissaBits == 53

\* guard bits appended before a division, so that the quotient of a non-zero
\* dividend by a divisor below 2^7 has more than MantissaBits + 1 bits
GuardBits == 62

Zeros(k) == [i \in 1..k |-> 0]

RECURSIVE BitsOfNat(_)
\* the bits of a natural number, most significant first
BitsOfNat(n) == IF n = 0 THEN <<>> ELSE Append(BitsOfNat(n \div 2), n % 2)

RECURSIVE NatOfBits(_)
\* the natural number of a short bit sequence
NatOfBits(bits) ==
    IF bits = <<>> THEN 0
    ELSE 2 * NatOfBits(SubSeq(bits, 1, Len(bits) - 1)) + bits[Len(bits)]

\* a bit sequence without its leading zeros
StripZeros(bits) ==
    IF \A i \in 1..Len(bits) : bits[i] = 0 THEN <<>>
    ELSE LET first == CHOOSE i \in 1..Len(bits) :
                          bits[i] = 1 /\ \A j \in 1..(i - 1) : bits[j] = 0
         IN  SubSeq(bits, first, Len(bits))

\* long arithmetic runs over limbs of LimbBits bits, most significant first
LimbBits == 15

LimbBase == 32768

\* the limbs of a bit sequence
LimbsOfBits(bits) ==
    LET n == (Len(bits) + LimbBits - 1) \div LimbBits
        padded == Zeros(n * LimbBits - Len(bits)) \o bits
    IN  [i \in 1..n |-> NatOfBits(SubSeq(padded, (i - 1) * LimbBits + 1, i * LimbBits))]

\* the LimbBits bits of one limb
BitsOfLimb(limb) ==
    LET b == BitsOfNat(limb) IN Zeros(LimbBits - Len(b)) \o b

\* the bits of a limb sequence
BitsOfLimbs(limbs) ==
    [i \in 1..(Len(limbs) * LimbBits) |->
        BitsOfLimb(limbs[((i - 1) \div LimbBits) + 1])[((i - 1) % LimbBits) + 1]]

RECURSIVE DivLimbs(_, _, _)
\* long division of limbs 1..i by a small divisor: quotient limbs and remainder
DivLimbs(limbs, q, i) ==
    IF i = 0 THEN [quot |-> <<>>, rem |-> 0]
    ELSE LET above == DivLimbs(limbs, q, i - 1)
             cur == above.rem * LimbBase + limbs[i]
         IN  [quot |-> Append(above.quot, cur \div q), rem |-> cur % q]

DivSmall(bits, q) ==
    LET limbs == LimbsOfBits(bits)
        d == DivLimbs(limbs, q, Len(limbs))
    IN  [quot |-> StripZeros(BitsOfLimbs(d.quot)), rem |-> d.rem]

RECURSIVE MulLimbs(_, _, _, _)
\* the product of limbs i..Len and a small factor plus a carry entering at
\* the last limb: product limbs and carry out
MulLimbs(limbs, k, carry, i) ==
    IF i > Len(limbs) THEN [limbs |-> <<>>, carry |-> carry]
    ELSE LET below == MulLimbs(limbs, k, carry, i + 1)
             cur == limbs[i] * k + below.carry
         IN  [limbs |-> <<cur % LimbBase>> \o below.limbs, carry |-> cur \div LimbBase]

MulSmallCarry(bits, k, carry) ==
    LET p == MulLimbs(LimbsOfBits(bits), k, carry, 1)
    IN  StripZeros(BitsOfNat(p.carry) \o BitsOfLimbs(p.limbs))

MulSmall(bits, k) == MulSmallCarry(bits, k, 0)

\* bits + 1
Increment(bits) == MulSmallCarry(bits, 1, 1)

\* the double nearest to bits * 2^e where the bits dropped below position
\* MantissaBits are followed by a non-zero remainder iff sticky: ties to even
RoundToDouble(bits, e, sticky) ==
    LET b == StripZeros(bits)
        len == Len(b)
    IN  IF b = <<>> THEN [m |-> <<>>, e |-> 0]
        ELSE IF len <= MantissaBits
        THEN [m |-> b \o Zeros(MantissaBits - len), e |-> e - (MantissaBits - len)]
        ELSE LET kept == SubSeq(b, 1, MantissaBits)
                 half == b[MantissaBits + 1]
                 rest == sticky \/ \E i \in (MantissaBits + 2)..len : b[i] = 1
                 up == half = 1 /\ (rest \/ kept[MantissaBits] = 1)
                 m == IF up THEN Increment(kept) ELSE kept
                 e2 == e + (len - MantissaBits)
             IN  IF Len(m) > MantissaBits
                 THEN [m |-> SubSeq(m, 1, MantissaBits), e |-> e2 + 1]
                 ELSE [m |-> m, e |-> e2]

\* x / q for a double x and a small positive integer q
DoubleDivSmall(x, q) ==
    LET d == DivSmall(x.m \o Zeros(GuardBits), q)
    IN  RoundToDouble(d.quot, x.e - GuardBits, d.rem # 0)

\* x * k for a double x and a small positive integer k
DoubleMulSmall(x, k) == RoundToDouble(MulSmall(x.m, k), x.e, FALSE)

\* the double of the quotient a / b of two small naturals
DoubleOfQuotient(a, b) == DoubleDivSmall(RoundToDouble(BitsOfNat(a), 0, FALSE), b)

\* Math.floor of a double below 2^31
DoubleFloor(x) ==
    IF x.m = <<>> \/ MantissaBits + x.e <= 0 THEN 0
    ELSE NatOfBits(SubSeq(x.m, 1, MantissaBits + x.e))

\* x % 1, which is exact
DoubleFraction(x) ==
    IF x.m = <<>> THEN x
    ELSE IF MantissaBits + x.e <= 0 THEN x
    ELSE RoundToDouble(SubSeq(x.m, MantissaBits + x.e + 1, MantissaBits), x.e, FALSE)

\* Math.round of a double below 2^30: the nearest integer, a tie going up
DoubleRound(x) ==
    IF x.m = <<>> THEN 0
    ELSE LET twice == [m |-> x.m, e |-> x.e + 1]
         IN  (DoubleFloor(twice) + 1) \div 2

\* the clock times the runs enter, in minutes since midnight: 00:00, 02:00,
\* 10:00, 11:05, 14:00, 17:07, 22:00
ClockTimes == {0, 120, 600, 665, 840, 1027, 1320}

\* the positive rounding granularities the runs pass, in minutes
RoundingGranularities == {10, 15}

\* the minutes between a clock-in and a clock-out, the clock-out a day later
\* when it is the earlier time
WorkedMinutes ==
    { IF o < i THEN o + 24 * 60 - i ELSE o - i : i \in ClockTimes, o \in ClockTimes }

\* the rounding branch of calculateHoursWorked for a shift of the given
\* minutes: the decision is taken on doubles as the code takes it, the hours
\* returned are kept as the exact quotient
RoundHours(minutes, g) ==
    LET hoursDouble == DoubleOfQuotient(minutes, 60)
        fractionalHours == DoubleFraction(hoursDouble)
        fractionalMinutes == DoubleMulSmall(fractionalHours, 60)
        roundedMinutes == DoubleRound(DoubleDivSmall(fractionalMinutes, g)) * g
    IN  RAdd(R(DoubleFloor(hoursDouble)), Norm(roundedMinutes, 60))

\* RoundHours of every shift length and granularity of the runs, computed once
RoundedHours ==
    [minutes \in WorkedMinutes, g \in RoundingGranularities |-> RoundHours(minutes, g)]

\* calculateHoursWorked(clockIn, clockOut, roundingMinutes); a time is <<>>
\* or <<minutes since midnight>>, the rounding argument is <<>> when the caller
\* passes undefined (the default applies) and <<r>> otherwise
calculateHoursWorked_ShortDay(clockIn, clockOut, roundingArg) ==
    IF clockIn = <<>> \/ clockOut = <<>> THEN R(0)
    ELSE LET roundingMinutes ==
                 IF roundingArg = <<>> THEN R(DefaultRoundingMinutes) ELSE roundingArg[1]
             inTime == clockIn[1]
             outTime == IF clockOut[1] < inTime THEN clockOut[1] + 23 * 60 ELSE clockOut[1]
             hoursWorked == Norm(outTime - inTime, 60)
         IN  IF RLt(R(0), roundingMinutes)
             THEN RoundHours(outTime - inTime, roundingMinutes.n)
             ELSE hoursWorked

calculateHoursWorked(clockIn, clockOut, roundingArg) ==
    IF clockIn = <<>> \/ clockOut = <<>> THEN R(0)
    ELSE LET roundingMinutes ==
                 IF roundingArg = <<>> THEN R(DefaultRoundingMinutes) ELSE roundingArg[1]
             inTime == clockIn[1]
             outTime == IF clockOut[1] < inTime THEN clockOut[1] + 24 * 60 ELSE clockOut[1]
             hoursWorked == Norm(outTime - inTime, 60)
         IN  IF RLt(R(0), roundingMinutes)
             THEN RoundedHours[outTime - inTime, roundingMinutes.n]
             ELSE hoursWorked

\* the line appended by addEmployeeToShift; employeeId "" is 0
BlankLine ==
    [employeeId |-> 0, position |-> "", pointValue |-> R(1),
     clockIn |-> <<>>, clockOut |-> <<>>, hoursWorked |-> R(0), points |-> R(0)]

\* the useState initial value of the EditShift page
EditShiftInitial ==
    [id |-> 0, date |-> "", type |-> "",
     creditCardTips |-> <<>>, houseTips |-> <<>>, cashTips |-> <<>>, employees |-> <<>>]

\* positions.find(p => p.name === name) over the client store
FindPosition(positions, name) ==
    LET hits == { i \in 1..Len(positions) : positions[i].name = name }
    IN  IF hits = {} THEN <<>>
        ELSE <<positions[CHOOSE i \in hits : \A j \in hits : i <= j]>>

\* positions.find(p => p.name === result.position)?.pointValue || 1.0
EditLoadPointValue(positions, result) ==
    LET found == FindPosition(positions, result.position)
    IN  IF found = <<>> THEN R(1) ELSE OrElse(found[1].pointValue, R(1))

\* the EditShift load effect for a fetched { shift, results }
EditShiftLoaded(positions, shiftData) ==
    LET shiftInfo == shiftData.shift[1]
    IN  [id |-> shiftInfo.id,
         date |-> shiftInfo.date,
         type |-> shiftInfo.type,
         creditCardTips |-> <<shiftInfo.creditCardTips>>,
         houseTips |-> <<shiftInfo.houseTips>>,
         cashTips |-> <<shiftInfo.cashTips>>,
         employees |-> Map(shiftData.results, LAMBDA result :
             [employeeId |-> result.employeeId,
              position |-> result.position,
              pointValue |-> EditLoadPointValue(positions, result),
              clockIn |-> result.clockIn,
              clockOut |-> result.clockOut,
              hoursWorked |-> JsonNumber(result.hours),
              points |-> JsonNumber(result.points)])]

\* a pool of the fetched shift arrives as null when the stored number is NaN,
\* and null.toString() throws inside the effect
EditShiftLoadThrows(shiftData) ==
    LET shiftInfo == shiftData.shift[1]
    IN  \/ ~IsFinite(shiftInfo.creditCardTips)
        \/ ~IsFinite(shiftInfo.houseTips)
        \/ ~IsFinite(shiftInfo.cashTips)

\* mutation: the lines' fields are not looked at
DraftIsValid_AnyLines(draft) ==
    /\ draft.date # "" /\ draft.type # ""
    /\ ~(draft.creditCardTips = <<>> /\ draft.houseTips = <<>> /\ draft.cashTips = <<>>)
    /\ Len(draft.employees) # 0

\* the checks of handleSaveShift (EditShift) and calculateTips (NewShift)
DraftIsValid(draft) ==
    /\ draft.date # "" /\ draft.type # ""
    /\ ~(draft.creditCardTips = <<>> /\ draft.houseTips = <<>> /\ draft.cashTips = <<>>)
    /\ Len(draft.employees) # 0
    /\ \A i \in 1..Len(draft.employees) :
          /\ draft.employees[i].employeeId # 0
          /\ draft.employees[i].position # ""
          /\ draft.employees[i].clockIn # <<>>
          /\ draft.employees[i].clockOut # <<>>

\* the shiftData calculateTips sends: parseFloat(pool) || 0, the lines as held
CalculateBody(draft) ==
    [date |-> draft.date, type |-> draft.type,
     creditCardTips |-> OrElse(parseFloat(draft.creditCardTips), R(0)),
     houseTips |-> OrElse(parseFloat(draft.houseTips), R(0)),
     cashTips |-> OrElse(parseFloat(draft.cashTips), R(0)),
     employees |-> Map(draft.employees, LAMBDA emp :
         [employeeId |-> emp.employeeId, position |-> emp.position,
          pointValue |-> emp.pointValue,
          clockIn |-> emp.clockIn, clockOut |-> emp.clockOut,
          hoursWorked |-> emp.hoursWorked, points |-> emp.points])]

\* the body updateMutation sends: parseFloat of the pools, the lines as held
UpdateBody(draft) ==
    [shift |-> [id |-> draft.id, date |-> draft.date, type |-> draft.type,
                creditCardTips |-> <<JsonNumber(parseFloat(draft.creditCardTips))>>,
                houseTips |-> <<JsonNumber(parseFloat(draft.houseTips))>>,
                cashTips |-> <<JsonNumber(parseFloat(draft.cashTips))>>],
     employees |-> draft.employees]

---------------------------------------------------------------------------
(* Allocation calls on drawn arguments                                     *)

MaxAllocLines == 3

AllocEmployeeIds == {15, 29}

AllocPoints == {R(-1), R(0), R(1), R(3)}

AllocPools == {R(0), R(20), R(100)}

AllocLine(id, p) ==
    [employeeId |-> id, position |-> "Server", pointValue |-> R(1),
     clockIn |-> <<600>>, clockOut |-> <<840>>, hoursWorked |-> p, points |-> p]

AllocLineSeqs ==
    UNION { [1..k -> { AllocLine(id, p) : id \in AllocEmployeeIds, p \in AllocPoints }]
            : k \in 0..MaxAllocLines }

NoCall == [op |-> "none", status |-> 0, results |-> <<>>,
           validation |-> [digital |-> TRUE, cash |-> TRUE]]

\* the server freshly constructed, the client before any page has loaded data
SystemInit ==
    /\ storage = InitStorage
    /\ lastWrite = <<>>
    /\ deleted = {}
    /\ page = "history"
    /\ shiftDraft = EditShiftInitial
    /\ shiftQuery = <<>>
    /\ restaurantStore = [shiftTypes |-> <<>>, positions |-> <<>>]

AllocInit ==
    /\ SystemInit
    /\ args \in [employees : AllocLineSeqs,
                 creditCardTips : AllocPools,
                 houseTips : {R(0), R(20)},
                 cashTips : {R(0), R(20)}]
    /\ ret = NoCall

\* the client utility called with the combined digital pool
ClientCalculate ==
    /\ LET out == calculateEmployeeTips(args.employees,
                      RAdd(args.creditCardTips, args.houseTips), args.cashTips)
       IN  ret' = [op |-> "client", status |-> 0,
                   results |-> out.results, validation |-> out.validation]
    /\ UNCHANGED <<args, serverVars, clientVars>>

\* the server route called with the same shift input
ServerCalculate ==
    /\ LET out == CalculateTipsRoute(args, SeedEmployees)
       IN  ret' = [op |-> "server", status |-> out.status,
                   results |-> out.results,
                   validation |->
                       validateDistribution(
                           [creditCardTips |-> <<args.creditCardTips>>,
                            houseTips |-> <<args.houseTips>>,
                            cashTips |-> <<args.cashTips>>], out.results)]
    /\ UNCHANGED <<args, serverVars, clientVars>>

AllocNext == ClientCalculate \/ ServerCalculate

SpecAlloc == AllocInit /\ [][AllocNext]_vars

---------------------------------------------------------------------------
(* The shift lifecycle: requests against the server and the EditShift page *)

\* shifts created in one run
MaxShifts == 2

\* the highest shift line id handed out in one run
MaxLineId == 4

\* stored employee 2 is Harold Z, employeeId 15
LifeEmployeeRecordIds == {2}

\* Server default point values the setup form submits
LifeServerPointValues == {R(1), R(2)}

\* employee 15 as Server, 10:00 to 14:00: 4 hours, 4 points
LineA ==
    [employeeId |-> 15, position |-> "Server", pointValue |-> R(1),
     clockIn |-> <<600>>, clockOut |-> <<840>>, hoursWorked |-> R(4), points |-> R(4)]

\* employee 29 as Busser, 10:00 to 14:00: 4 hours, 2.2 points
LineB ==
    [employeeId |-> 29, position |-> "Busser", pointValue |-> Norm(55, 100),
     clockIn |-> <<600>>, clockOut |-> <<840>>, hoursWorked |-> R(4), points |-> Norm(22, 10)]

\* employee 29 as Busser, 10:00 to 10:00: no hours, no points
LineZ ==
    [employeeId |-> 29, position |-> "Busser", pointValue |-> Norm(55, 100),
     clockIn |-> <<600>>, clockOut |-> <<600>>, hoursWorked |-> R(0), points |-> R(0)]

LifeShift(date, lines) ==
    [date |-> date, type |-> "Dinner",
     creditCardTips |-> <<R(100)>>, houseTips |-> <<R(0)>>, cashTips |-> <<R(20)>>,
     employees |-> lines]

\* the results a save request carries for a draft: what the calculate route
\* answers for it, or for a draft of total points 0 one zero-amount result a line
LifeResults(draft) ==
    LET out == CalculateTipsRoute(
                   [employees |-> draft.employees,
                    creditCardTips |-> parseFloat(draft.creditCardTips),
                    houseTips |-> parseFloat(draft.houseTips),
                    cashTips |-> parseFloat(draft.cashTips)], SeedEmployees)
    IN  IF out.status = 200 THEN out.results
        ELSE Map(draft.employees, LAMBDA e :
                 [employeeId |-> e.employeeId, name |-> FallbackName(e.employeeId),
                  position |-> e.position, hours |-> e.hoursWorked, points |-> e.points,
                  digitalTips |-> R(0), cashTips |-> R(0)])

SaveBody(draft, hasResults) ==
    [hasShift |-> TRUE, hasResults |-> hasResults,
     shift |-> draft, results |-> LifeResults(draft)]

\* save requests: two well-formed ones, one of total points 0, one without a
\* date, one without results
SaveBodies ==
    { SaveBody(LifeShift("2024-05-01", <<LineA>>), TRUE),
      SaveBody(LifeShift("2024-05-01", <<LineA, LineB>>), TRUE),
      SaveBody(LifeShift("2024-05-01", <<LineZ>>), TRUE),
      SaveBody(LifeShift("", <<LineA>>), TRUE),
      SaveBody(LifeShift("2024-05-01", <<LineA>>), FALSE) }

\* update requests sent to the API directly
UpdateBodies ==
    { UpdateBody([id |-> 0] @@ LifeShift("2024-05-02", lines))
        : lines \in { <<LineA>>, <<LineA, LineB>> } }

\* the pointValue and points of each line of a sequence
PointsOf(lines) == Map(lines, LAMBDA l : [pointValue |-> l.pointValue, points |-> l.points])

\* the history entry of a write of shift id
WriteEntry(op, st, st2, id, lines, loaded, zeroPoints, missingField) ==
    [op |-> op,
     positions |-> IF op = "edit" THEN restaurantStore.positions ELSE <<>>,
     prior |-> Len(getShiftEmployees(st, id)),
     lines |-> lines,
     rows |-> PointsOf(getShiftEmployees(st2, id)),
     loaded |-> loaded,
     zeroPoints |-> zeroPoints,
     missingField |-> missingField]

\* the request line fields a read can be compared with
AsLine(employeeId, position, hours, points) ==
    [employeeId |-> employeeId, position |-> position, hours |-> hours, points |-> points]

LineRoom(st, n) == st.currentIds.shiftEmployee + n - 1 <= MaxLineId

\* POST /api/shifts
CreateShift(body) ==
    /\ storage.currentIds.shift <= MaxShifts
    /\ LineRoom(storage, Len(body.results))
    /\ LET out == PostShiftsRoute(storage, body)
           id == storage.currentIds.shift
       IN  /\ storage' = out.st
           /\ lastWrite' =
                IF out.status = 201
                THEN (id :> WriteEntry("create", storage, out.st, id,
                          Map(body.results, LAMBDA r :
                              AsLine(r.employeeId, r.position, r.hours, r.points)),
                          <<>>,
                          IsZero(SumOver(Map(body.results, LAMBDA r : r.points), 1)),
                          body.shift.date = "" \/ body.shift.type = "")) @@ lastWrite
                ELSE lastWrite
    /\ UNCHANGED <<deleted, clientVars, allocVars>>

\* PUT /api/shifts/:id sent to the API directly
UpdateShiftReq(id, body) ==
    /\ LineRoom(storage, Len(body.employees))
    /\ LET out == PutShiftRoute(storage, id, body)
       IN  /\ storage' = out.st
           /\ lastWrite' =
                IF out.status = 200
                THEN (id :> WriteEntry("update", storage, out.st, id,
                          Map(body.employees, LAMBDA e :
                              AsLine(e.employeeId, e.position, e.hoursWorked, e.points)),
                          <<>>, FALSE, FALSE)) @@ lastWrite
                ELSE lastWrite
    /\ UNCHANGED <<deleted, clientVars, allocVars>>

\* DELETE /api/shifts/:id
DeleteShiftReq(id) ==
    /\ LET out == DeleteShiftRoute(storage, id)
       IN  /\ storage' = out.st
           /\ deleted' = IF out.status = 204 THEN deleted \cup {id} ELSE deleted
    /\ UNCHANGED <<lastWrite, clientVars, allocVars>>

\* DELETE /api/employees/:id
DeleteEmployeeReq(id) ==
    /\ LET out == DeleteEmployeeRoute(storage, id)
       IN  /\ storage' = out.st
    /\ UNCHANGED <<lastWrite, deleted, clientVars, allocVars>>

\* the Setup page saves the configuration it shows with the Server default
\* set to pointValue
SaveSetup(pointValue) ==
    /\ LET current == GetSetupRoute(storage)
           body == [restaurant |-> current.restaurant,
                    shiftTypes |-> current.shiftTypes,
                    positions |-> Map(current.positions, LAMBDA p :
                        IF p.name = "Server" THEN [p EXCEPT !.pointValue = pointValue]
                        ELSE p)]
           out == SetupRoute(storage, body)
       IN  /\ storage' = out.st
    /\ UNCHANGED <<lastWrite, deleted, clientVars, allocVars>>

\* useQuery(["/api/shifts", id]) of the EditShift page.  The query function
\* lives in @/lib/queryClient; it is taken to fetch the shift by id, which is
\* the { shift, results } shape the load effect reads.
ShiftQueryFn(st, id) == GetShiftRoute(st, id)

\* the draft the load effect leaves for the query data it sees
EditDraftFor(positions, data) ==
    IF data = <<>> THEN EditShiftInitial
    ELSE IF EditShiftLoadThrows(data[1]) THEN EditShiftInitial
    ELSE EditShiftLoaded(positions, data[1])

\* Layout: the setup query answers and setRestaurantConfig fills the store;
\* a mounted EditShift page re-runs its load effect on the new positions
SetRestaurantConfig ==
    /\ LET data == GetSetupRoute(storage)
       IN  /\ restaurantStore' = [shiftTypes |-> data.shiftTypes, positions |-> data.positions]
           /\ shiftDraft' = IF page = "edit-shift"
                            THEN EditDraftFor(data.positions, shiftQuery)
                            ELSE shiftDraft
    /\ UNCHANGED <<page, shiftQuery, serverVars, allocVars>>

\* the History page navigates to /edit-shift/:id, the shift query answers and
\* the load effect runs
OpenEditShift(id) ==
    /\ page = "history"
    /\ LET out == ShiftQueryFn(storage, id)
           data == IF out.status = 200 THEN <<out>> ELSE <<>>
       IN  /\ page' = "edit-shift"
           /\ shiftQuery' = data
           /\ shiftDraft' = EditDraftFor(restaurantStore.positions, data)
    /\ UNCHANGED <<storage, lastWrite, deleted, restaurantStore, allocVars>>

\* EditShift: handleSaveShift passes its checks, the mutation's PUT answers;
\* success navigates to /history
EditSave ==
    /\ page = "edit-shift"
    /\ DraftIsValid(shiftDraft)
    /\ LineRoom(storage, Len(shiftDraft.employees))
    /\ LET id == shiftDraft.id
           body == UpdateBody(shiftDraft)
           out == PutShiftRoute(storage, id, body)
       IN  /\ storage' = out.st
           /\ lastWrite' =
                IF out.status = 200
                THEN (id :> WriteEntry("edit", storage, out.st, id,
                          Map(body.employees, LAMBDA e :
                              AsLine(e.employeeId, e.position, e.hoursWorked, e.points)),
                          PointsOf(shiftQuery[1].results), FALSE, FALSE)) @@ lastWrite
                ELSE lastWrite
           /\ page' = IF out.status = 200 THEN "history" ELSE page
           /\ shiftDraft' = IF out.status = 200 THEN EditShiftInitial ELSE shiftDraft
           /\ shiftQuery' = IF out.status = 200 THEN <<>> ELSE shiftQuery
    /\ UNCHANGED <<deleted, restaurantStore, allocVars>>

\* EditShift: Cancel navigates back to /history
CancelEdit ==
    /\ page = "edit-shift"
    /\ page' = "history"
    /\ shiftDraft' = EditShiftInitial
    /\ shiftQuery' = <<>>
    /\ UNCHANGED <<restaurantStore, serverVars, allocVars>>

Init ==
    /\ SystemInit
    /\ args = [employees |-> <<>>, creditCardTips |-> R(0),
               houseTips |-> R(0), cashTips |-> R(0)]
    /\ ret = NoCall

Next ==
    \/ \E body \in SaveBodies : CreateShift(body)
    \/ \E id \in 1..MaxShifts, body \in UpdateBodies : UpdateShiftReq(id, body)
    \/ \E id \in 1..MaxShifts : DeleteShiftReq(id)
    \/ \E id \in LifeEmployeeRecordIds : DeleteEmployeeReq(id)
    \/ \E pointValue \in LifeServerPointValues : SaveSetup(pointValue)
    \/ SetRestaurantConfig
    \/ \E id \in 1..MaxShifts : OpenEditShift(id)
    \/ EditSave
    \/ CancelEdit

Spec == Init /\ [][Next]_vars

---------------------------------------------------------------------------
(* Draft editing on the NewShift and EditShift pages                       *)

\* lines a draft holds in one run
MaxDraftLines == 2

DraftEmployeeIds == {15, 29}

DraftPositions == {"Server", "Busser"}

\* "10:00", "14:00"
DraftTimes == {<<600>>, <<840>>}

\* the point value field typed over: "2"
DraftPointValueTexts == {<<R(2)>>}

\* the useState initial value of the NewShift page; the date is today's
NewShiftInitial ==
    [date |-> "2024-05-01", type |-> "",
     creditCardTips |-> <<>>, houseTips |-> <<>>, cashTips |-> <<>>, employees |-> <<>>]

\* NewShift: once shiftTypes are in the store the effect picks the first
WithFirstShiftType(draft, shiftTypes) ==
    IF Len(shiftTypes) > 0 /\ draft.type = ""
    THEN [draft EXCEPT !.type = shiftTypes[1].name]
    ELSE draft

\* what each page passes to calculateHoursWorked as roundingMinutes: NewShift
\* the store's timeRounding, which the store does not have (undefined), and
\* EditShift false, which is not greater than 0
RoundingArg(onPage) == IF onPage = "new-shift" THEN <<>> ELSE <<R(0)>>

addEmployeeToShift(draft) ==
    [draft EXCEPT !.employees = Append(@, BlankLine)]

removeEmployeeFromShift(draft, index) ==
    [draft EXCEPT !.employees =
        [i \in 1..(Len(@) - 1) |-> IF i < index THEN @[i] ELSE @[i + 1]]]

updateEmployeeSelection(draft, index, employeeId) ==
    [draft EXCEPT !.employees[index] =
        [@ EXCEPT !.employeeId = employeeId, !.position = "", !.pointValue = R(1)]]

updateEmployeePosition(positions, draft, index, position) ==
    LET positionConfig == FindPosition(positions, position)
        pointValue == IF positionConfig # <<>> THEN positionConfig[1].pointValue ELSE R(1)
        line == draft.employees[index]
    IN  [draft EXCEPT !.employees[index] =
            [line EXCEPT !.position = position, !.pointValue = pointValue,
                         !.points = IF RLt(R(0), line.hoursWorked)
                                    THEN RMul(line.hoursWorked, pointValue)
                                    ELSE line.points]]

updatePointValue(draft, index, value) ==
    LET pointValue == OrElse(parseFloat(value), R(0))
        line == draft.employees[index]
    IN  [draft EXCEPT !.employees[index] =
            [line EXCEPT !.pointValue = pointValue,
                         !.points = IF RLt(R(0), line.hoursWorked)
                                    THEN RMul(line.hoursWorked, pointValue)
                                    ELSE line.points]]

updateTime(draft, index, field, value, roundingArg) ==
    LET edited == [draft.employees[index] EXCEPT ![field] = value]
    IN  [draft EXCEPT !.employees[index] =
            IF edited.clockIn # <<>> /\ edited.clockOut # <<>>
            THEN LET hours == calculateHoursWorked(edited.clockIn, edited.clockOut, roundingArg)
                 IN  [edited EXCEPT !.hoursWorked = hours,
                                    !.points = RMul(hours, edited.pointValue)]
            ELSE edited]

\* the store once one shift of two lines has been saved
DraftStore ==
    PostShiftsRoute(InitStorage,
        SaveBody(LifeShift("2024-05-01", <<LineA, LineB>>), TRUE)).st

DraftPages == {"new-shift", "edit-shift"}

\* either page just mounted over the loaded configuration and one saved shift
DraftInit ==
    /\ storage = DraftStore
    /\ restaurantStore = [shiftTypes |-> GetSetupRoute(DraftStore).shiftTypes,
                          positions |-> GetSetupRoute(DraftStore).positions]
    /\ lastWrite = (1 :> WriteEntry("create", InitStorage, DraftStore, 1,
                            <<AsLine(15, "Server", R(4), R(4)),
                              AsLine(29, "Busser", R(4), Norm(22, 10))>>,
                            <<>>, FALSE, FALSE))
    /\ deleted = {}
    /\ page \in DraftPages
    /\ shiftQuery = IF page = "edit-shift" THEN <<ShiftQueryFn(DraftStore, 1)>> ELSE <<>>
    /\ shiftDraft = IF page = "edit-shift"
                    THEN EditDraftFor(restaurantStore.positions, shiftQuery)
                    ELSE [id |-> 0] @@ WithFirstShiftType(NewShiftInitial,
                                                           restaurantStore.shiftTypes)
    /\ args = [employees |-> <<>>, creditCardTips |-> R(0),
               houseTips |-> R(0), cashTips |-> R(0)]
    /\ ret = NoCall

DraftFrame == UNCHANGED <<page, shiftQuery, restaurantStore, serverVars, allocVars>>

AddEmployee ==
    /\ Len(shiftDraft.employees) < MaxDraftLines
    /\ shiftDraft' = addEmployeeToShift(shiftDraft)
    /\ DraftFrame

RemoveEmployee(index) ==
    /\ index \in 1..Len(shiftDraft.employees)
    /\ shiftDraft' = removeEmployeeFromShift(shiftDraft, index)
    /\ DraftFrame

SelectEmployee(index, employeeId) ==
    /\ index \in 1..Len(shiftDraft.employees)
    /\ shiftDraft' = updateEmployeeSelection(shiftDraft, index, employeeId)
    /\ DraftFrame

SelectPosition(index, position) ==
    /\ index \in 1..Len(shiftDraft.employees)
    /\ shiftDraft' = updateEmployeePosition(restaurantStore.positions, shiftDraft, index, position)
    /\ DraftFrame

EditPointValue(index, value) ==
    /\ index \in 1..Len(shiftDraft.employees)
    /\ shiftDraft' = updatePointValue(shiftDraft, index, value)
    /\ DraftFrame

EditTime(index, field, value) ==
    /\ index \in 1..Len(shiftDraft.employees)
    /\ shiftDraft' = updateTime(shiftDraft, index, field, value, RoundingArg(page))
    /\ DraftFrame

DraftNext ==
    \/ AddEmployee
    \/ \E index \in 1..MaxDraftLines : RemoveEmployee(index)
    \/ \E index \in 1..MaxDraftLines, employeeId \in DraftEmployeeIds :
          SelectEmployee(index, employeeId)
    \/ \E index \in 1..MaxDraftLines, position \in DraftPositions :
          SelectPosition(index, position)
    \/ \E index \in 1..MaxDraftLines, value \in DraftPointValueTexts :
          EditPointValue(index, value)
    \/ \E index \in 1..MaxDraftLines, field \in {"clockIn", "clockOut"}, value \in DraftTimes :
          EditTime(index, field, value)

SpecDraft == DraftInit /\ [][DraftNext]_vars

\* ---------------------------------------------------------------------------
\* The time calculator on its own: calculateHoursWorked applied to every pair
\* of clock times, a time left empty included, with the granularity omitted,
\* 0 (also what the edit page's false counts as), or a positive number.
\* ---------------------------------------------------------------------------

HoursTimes == {<<>>} \cup { <<t>> : t \in ClockTimes }

HoursRoundings == {<<>>, <<R(0)>>} \cup { <<R(g)>> : g \in RoundingGranularities }

HoursInit ==
    /\ SystemInit
    /\ args \in [clockIn : HoursTimes, clockOut : HoursTimes, rounding : HoursRoundings]
    /\ ret = NoCall

CallCalculateHoursWorked ==
    /\ ret' = [op |-> "hours",
               hours |-> calculateHoursWorked(args.clockIn, args.clockOut, args.rounding)]
    /\ UNCHANGED <<args, serverVars, clientVars>>

HoursNext == CallCalculateHoursWorked

SpecHours == HoursInit /\ [][HoursNext]_vars

\* ---------------------------------------------------------------------------
\* The shift API on its own: each request is answered in one step, args holds
\* the request and ret the answer.
\* ---------------------------------------------------------------------------

\* a save request whose results carry amounts that are not the allocation of
\* its pools
StaleSaveBody ==
    LET body == SaveBody(LifeShift("2024-05-01", <<LineA, LineB>>), TRUE)
    IN  [body EXCEPT !.results =
            Map(@, LAMBDA r : [r EXCEPT !.digitalTips = R(1), !.cashTips = R(1)])]

\* employee 15 a second time, as Busser, 14:00 to 22:00: 8 hours, 4.4 points
LineC ==
    [employeeId |-> 15, position |-> "Busser", pointValue |-> Norm(55, 100),
     clockIn |-> <<840>>, clockOut |-> <<1320>>, hoursWorked |-> R(8), points |-> Norm(44, 10)]

\* a calculated draft with a line of 0 hours beside a worked line
ZeroHoursSaveBody == SaveBody(LifeShift("2024-05-01", <<LineA, LineZ>>), TRUE)

\* a calculated draft with the same employee on two lines
TwoLinesSaveBody == SaveBody(LifeShift("2024-05-01", <<LineA, LineC>>), TRUE)

ApiSaveBodies == SaveBodies \cup {StaleSaveBody, ZeroHoursSaveBody, TwoLinesSaveBody}

ApiRequest(op, id) == [op |-> op, id |-> id]

ApiInit ==
    /\ SystemInit
    /\ args = ApiRequest("none", 0)
    /\ ret = NoCall

\* POST /api/shifts
ApiPostShift(body) ==
    /\ storage.currentIds.shift <= MaxShifts
    /\ LineRoom(storage, Len(body.results))
    /\ LET out == PostShiftsRoute(storage, body)
           id == storage.currentIds.shift
       IN  /\ storage' = out.st
           /\ lastWrite' =
                IF out.status = 201
                THEN (id :> WriteEntry("create", storage, out.st, id,
                          Map(body.results, LAMBDA r :
                              AsLine(r.employeeId, r.position, r.hours, r.points)),
                          <<>>,
                          IsZero(SumOver(Map(body.results, LAMBDA r : r.points), 1)),
                          body.shift.date = "" \/ body.shift.type = "")) @@ lastWrite
                ELSE lastWrite
           /\ args' = [op |-> "addShift", id |-> 0, lines |-> body.shift.employees]
           /\ ret' = [op |-> "addShift", status |-> out.status,
                      shift |-> out.shift, results |-> out.results]
    /\ UNCHANGED <<deleted, clientVars>>

\* PUT /api/shifts/:id
ApiPutShift(id, body) ==
    /\ LineRoom(storage, Len(body.employees))
    /\ LET out == PutShiftRoute(storage, id, body)
       IN  /\ storage' = out.st
           /\ lastWrite' =
                IF out.status = 200
                THEN (id :> WriteEntry("update", storage, out.st, id,
                          Map(body.employees, LAMBDA e :
                              AsLine(e.employeeId, e.position, e.hoursWorked, e.points)),
                          <<>>, FALSE, FALSE)) @@ lastWrite
                ELSE lastWrite
           /\ args' = ApiRequest("updateShift", id)
           /\ ret' = [op |-> "updateShift", status |-> out.status,
                      shift |-> out.shift, results |-> out.results]
    /\ UNCHANGED <<deleted, clientVars>>

\* DELETE /api/shifts/:id
ApiDeleteShift(id) ==
    /\ LET out == DeleteShiftRoute(storage, id)
       IN  /\ storage' = out.st
           /\ deleted' = IF out.status = 204 THEN deleted \cup {id} ELSE deleted
           /\ args' = ApiRequest("deleteShift", id)
           /\ ret' = [op |-> "deleteShift", status |-> out.status,
                      shift |-> <<>>, results |-> <<>>]
    /\ UNCHANGED <<lastWrite, clientVars>>

\* GET /api/shifts/:id
ApiGetShift(id) ==
    /\ LET out == GetShiftRoute(storage, id)
       IN  /\ args' = ApiRequest("getShift", id)
           /\ ret' = [op |-> "getShift", status |-> out.status,
                      shift |-> out.shift, results |-> out.results]
    /\ UNCHANGED <<serverVars, clientVars>>

\* DELETE /api/employees/:id
ApiDeleteEmployee(id) ==
    /\ LET out == DeleteEmployeeRoute(storage, id)
       IN  /\ storage' = out.st
           /\ args' = ApiRequest("deleteEmployee", id)
           /\ ret' = [op |-> "deleteEmployee", status |-> out.status,
                      shift |-> <<>>, results |-> <<>>]
    /\ UNCHANGED <<lastWrite, deleted, clientVars>>

ApiNext ==
    \/ \E body \in ApiSaveBodies : ApiPostShift(body)
    \/ \E id \in 1..MaxShifts, body \in UpdateBodies : ApiPutShift(id, body)
    \/ \E id \in 1..MaxShifts : ApiDeleteShift(id)
    \/ \E id \in 1..MaxShifts : ApiGetShift(id)
    \/ \E id \in LifeEmployeeRecordIds : ApiDeleteEmployee(id)

SpecApi == ApiInit /\ [][ApiNext]_vars

\* ---------------------------------------------------------------------------
\* The employee API on its own
\* ---------------------------------------------------------------------------

\* the highest employee record id handed out in one run (the seeds hold 1..9)
MaxEmployeeRecordId == 11

\* employeeIds the requests name: 15 and 29 are seeded, 77 and 78 are not
RosterEmployeeIds == {15, 29, 77, 78}

\* record ids the requests name: two seeds and the records created in the run
RosterRecordIds == {2, 8} \cup (10..MaxEmployeeRecordId)

EmployeeBody(employeeId, valid) ==
    [valid |-> valid,
     employee |-> [employeeId |-> employeeId, firstName |-> "New", lastName |-> "E",
                   positions |-> <<"Server">>]]

EmployeeBodies ==
    { EmployeeBody(employeeId, TRUE) : employeeId \in RosterEmployeeIds }
        \cup {EmployeeBody(0, FALSE)}

RosterRequest(op, id, body) ==
    [op |-> op, id |-> id, valid |-> body.valid, employeeId |-> body.employee.employeeId]

RosterInit ==
    /\ SystemInit
    /\ args = RosterRequest("none", 0, EmployeeBody(0, FALSE))
    /\ ret = NoCall

\* POST /api/employees
RosterPostEmployee(body) ==
    /\ storage.currentIds.employee <= MaxEmployeeRecordId
    /\ LET out == PostEmployeeRoute(storage, body)
       IN  /\ storage' = out.st
           /\ args' = RosterRequest("addEmployee", 0, body)
           /\ ret' = [op |-> "addEmployee", status |-> out.status]
    /\ UNCHANGED <<lastWrite, deleted, clientVars>>

\* PUT /api/employees/:id
RosterPutEmployee(id, body) ==
    /\ LET out == PutEmployeeRoute(storage, id, body)
       IN  /\ storage' = out.st
           /\ args' = RosterRequest("updateEmployee", id, body)
           /\ ret' = [op |-> "updateEmployee", status |-> out.status]
    /\ UNCHANGED <<lastWrite, deleted, clientVars>>

\* DELETE /api/employees/:id
RosterDeleteEmployee(id) ==
    /\ LET out == DeleteEmployeeRoute(storage, id)
       IN  /\ storage' = out.st
           /\ args' = RosterRequest("deleteEmployee", id, EmployeeBody(0, FALSE))
           /\ ret' = [op |-> "deleteEmployee", status |-> out.status]
    /\ UNCHANGED <<lastWrite, deleted, clientVars>>

RosterNext ==
    \/ \E body \in EmployeeBodies : RosterPostEmployee(body)
    \/ \E id \in RosterRecordIds, body \in EmployeeBodies : RosterPutEmployee(id, body)
    \/ \E id \in RosterRecordIds : RosterDeleteEmployee(id)

SpecRoster == RosterInit /\ [][RosterNext]_vars

\* ---------------------------------------------------------------------------
\* The NewShift page from its first render to the calculation, the save from
\* the results page and the save from the edit page: the form is filled in,
\* Calculate Tips is clicked, the calculate route answers.  args holds the
\* last click and its request, ret the last calculate answer and the
\* "tipCalculation" entry of sessionStorage.
\* ---------------------------------------------------------------------------

\* the most lines the form holds in one run
MaxCalcLines == 1

\* the most shifts saved from the results page in one run
MaxCalcShifts == 1

\* the date field cleared, or a day
CalcDates == {"", "2024-05-01"}

\* a pool field left empty, "0", "100"
CalcPoolTexts == {<<>>, <<R(0)>>, <<R(100)>>}

CalcPoolFields == {"creditCardTips", "houseTips", "cashTips"}

CalcClick(sent, body) ==
    [op |-> "calculate-tips", sent |-> sent, pending |-> sent, body |-> body]

CalcNoClick == [op |-> "none", sent |-> FALSE, pending |-> FALSE, body |-> <<>>]

CalcNoAnswer == [op |-> "none", status |-> 0, stored |-> <<>>]

\* the page mounts before the setup query has answered: no shift types yet
CalcInit ==
    /\ storage = InitStorage
    /\ lastWrite = <<>>
    /\ deleted = {}
    /\ page = "new-shift"
    /\ shiftDraft = [id |-> 0] @@ NewShiftInitial
    /\ shiftQuery = <<>>
    /\ restaurantStore = [shiftTypes |-> <<>>, positions |-> <<>>]
    /\ args = CalcNoClick
    /\ ret = CalcNoAnswer

\* the Calculate button is disabled while a request is in flight
CalcForm == page = "new-shift" /\ ~args.pending

\* the fields of the form stay editable while a request is in flight
CalcFields == page = "new-shift"

CalcFrame == UNCHANGED <<page, shiftQuery, restaurantStore, serverVars, allocVars>>

\* Layout: the setup query answers, setRestaurantConfig fills the store; the
\* NewShift effect picks the first shift type, the EditShift load effect runs
\* again on the new positions
CalcLoadConfig ==
    /\ restaurantStore.shiftTypes = <<>>
    /\ LET data == GetSetupRoute(storage)
       IN  /\ restaurantStore' = [shiftTypes |-> data.shiftTypes, positions |-> data.positions]
           /\ shiftDraft' = IF page = "new-shift"
                            THEN WithFirstShiftType(shiftDraft, data.shiftTypes)
                            ELSE IF page = "edit-shift"
                            THEN EditDraftFor(data.positions, shiftQuery)
                            ELSE shiftDraft
    /\ UNCHANGED <<page, shiftQuery, serverVars, allocVars>>

CalcSetDate(date) ==
    /\ CalcFields
    /\ shiftDraft' = [shiftDraft EXCEPT !.date = date]
    /\ CalcFrame

CalcSetPool(field, text) ==
    /\ CalcFields
    /\ shiftDraft' = [shiftDraft EXCEPT ![field] = text]
    /\ CalcFrame

CalcAddEmployee ==
    /\ CalcFields
    /\ Len(shiftDraft.employees) < MaxCalcLines
    /\ shiftDraft' = addEmployeeToShift(shiftDraft)
    /\ CalcFrame

CalcRemoveEmployee(index) ==
    /\ CalcFields
    /\ index \in 1..Len(shiftDraft.employees)
    /\ shiftDraft' = removeEmployeeFromShift(shiftDraft, index)
    /\ CalcFrame

CalcSelectEmployee(index, employeeId) ==
    /\ CalcFields
    /\ index \in 1..Len(shiftDraft.employees)
    /\ shiftDraft' = updateEmployeeSelection(shiftDraft, index, employeeId)
    /\ CalcFrame

\* the position select is disabled until the line has an employee
CalcSelectPosition(index, position) ==
    /\ CalcFields
    /\ index \in 1..Len(shiftDraft.employees)
    /\ shiftDraft.employees[index].employeeId # 0
    /\ shiftDraft' = updateEmployeePosition(restaurantStore.positions, shiftDraft,
                                            index, position)
    /\ CalcFrame

CalcEditTime(index, field, value) ==
    /\ CalcFields
    /\ index \in 1..Len(shiftDraft.employees)
    /\ shiftDraft' = updateTime(shiftDraft, index, field, value, RoundingArg(page))
    /\ CalcFrame

\* calculateTips: a draft that fails a check gets a toast and nothing is
\* sent; otherwise calculateMutation.mutate(shiftData)
CalculateTips ==
    /\ CalcForm
    /\ args' = IF DraftIsValid(shiftDraft)
               THEN CalcClick(TRUE, <<CalculateBody(shiftDraft)>>)
               ELSE CalcClick(FALSE, <<>>)
    /\ UNCHANGED <<ret, serverVars, clientVars>>

\* POST /api/calculate-tips answers: onSuccess stores { shift, results } and
\* navigates to /results, onError shows a toast
CalculateAnswer ==
    /\ args.pending
    /\ LET out == CalculateTipsRoute(args.body[1], storage.employees)
       IN  /\ ret' = [op |-> "calculate-tips", status |-> out.status,
                      stored |-> IF out.status = 200
                                 THEN <<[shift |-> shiftDraft, results |-> out.results]>>
                                 ELSE ret.stored]
           /\ page' = IF out.status = 200 THEN "results" ELSE page
    /\ args' = [args EXCEPT !.pending = FALSE]
    /\ UNCHANGED <<shiftDraft, shiftQuery, restaurantStore, serverVars>>

\* Results: handleSaveShift posts the stored calculation as it is; success
\* navigates to /history
CalcSaveShift ==
    /\ page = "results"
    /\ storage.currentIds.shift <= MaxCalcShifts
    /\ LET out == PostShiftsRoute(storage,
                      [hasShift |-> TRUE, hasResults |-> TRUE,
                       shift |-> ret.stored[1].shift, results |-> ret.stored[1].results])
       IN  /\ storage' = out.st
           /\ page' = IF out.status = 201 THEN "history" ELSE page
           /\ args' = [op |-> "addShift", sent |-> TRUE, pending |-> FALSE, body |-> <<>>]
    /\ UNCHANGED <<ret, lastWrite, deleted, shiftDraft, shiftQuery, restaurantStore>>

\* History: the edit link of a shift; the shift query answers and the load
\* effect of EditShift runs
CalcOpenEditShift(id) ==
    /\ page = "history"
    /\ LET out == ShiftQueryFn(storage, id)
           data == IF out.status = 200 THEN <<out>> ELSE <<>>
       IN  /\ page' = "edit-shift"
           /\ shiftQuery' = data
           /\ shiftDraft' = EditDraftFor(restaurantStore.positions, data)
    /\ UNCHANGED <<restaurantStore, serverVars, allocVars>>

\* EditShift: handleSaveShift; a draft that fails a check gets a toast,
\* otherwise the mutation's PUT is sent and answered, success navigates to
\* /history
CalcEditSave ==
    /\ page = "edit-shift"
    /\ LineRoom(storage, Len(shiftDraft.employees))
    /\ IF DraftIsValid(shiftDraft)
       THEN LET body == UpdateBody(shiftDraft)
                out == PutShiftRoute(storage, shiftDraft.id, body)
            IN  /\ storage' = out.st
                /\ page' = IF out.status = 200 THEN "history" ELSE page
                /\ args' = [op |-> "updateShift", sent |-> TRUE, pending |-> FALSE,
                            body |-> <<ParsedShiftData(body.shift)>>]
       ELSE /\ args' = [op |-> "updateShift", sent |-> FALSE, pending |-> FALSE,
                        body |-> <<>>]
            /\ UNCHANGED <<storage, page>>
    /\ UNCHANGED <<ret, lastWrite, deleted, shiftDraft, shiftQuery, restaurantStore>>

CalcNext ==
    \/ CalcSaveShift
    \/ \E id \in 1..MaxCalcShifts : CalcOpenEditShift(id)
    \/ CalcEditSave
    \/ CalcLoadConfig
    \/ \E date \in CalcDates : CalcSetDate(date)
    \/ \E field \in CalcPoolFields, text \in CalcPoolTexts : CalcSetPool(field, text)
    \/ CalcAddEmployee
    \/ \E index \in 1..MaxCalcLines : CalcRemoveEmployee(index)
    \/ \E index \in 1..MaxCalcLines : CalcSelectEmployee(index, 15)
    \/ \E index \in 1..MaxCalcLines : CalcSelectPosition(index, "Server")
    \/ \E index \in 1..MaxCalcLines, field \in {"clockIn", "clockOut"}, value \in DraftTimes :
          CalcEditTime(index, field, value)
    \/ CalculateTips
    \/ CalculateAnswer

SpecCalc == CalcInit /\ [][CalcNext]_vars

\* ---------------------------------------------------------------------------
\* The setup API on its own: the Setup form posts the configuration it was
\* given with one entry added, renamed or removed.
\* ---------------------------------------------------------------------------

\* the most positions, and the most shift types, added in one run
MaxSetupAdds == 2

\* names typed into the form: one that a seed carries, one that none does
SetupPositionNames == {"Server", "Host"}

SetupShiftTypeNames == {"Lunch", "Late"}

\* a sequence without its entry i
WithoutEntry(seq, i) ==
    [j \in 1..(Len(seq) - 1) |-> IF j < i THEN seq[j] ELSE seq[j + 1]]

\* the entries the form edits: the first seed and the entries added in the run
SetupEdited(entries, seeds) ==
    { i \in 1..Len(entries) : entries[i].id = 1 \/ entries[i].id > Cardinality(seeds) }

\* the position lists the form can post for the list it shows
SetupPositionEdits(positions) ==
    { Append(positions, [id |-> 0, name |-> name, pointValue |-> R(1)])
        : name \in SetupPositionNames }
    \cup { [positions EXCEPT ![i].name = name]
            : i \in SetupEdited(positions, SeedPositions), name \in SetupPositionNames }
    \cup { WithoutEntry(positions, i) : i \in SetupEdited(positions, SeedPositions) }

\* the shift type lists the form can post for the list it shows
SetupShiftTypeEdits(shiftTypes) ==
    { Append(shiftTypes, [id |-> 0, name |-> name]) : name \in SetupShiftTypeNames }
    \cup { [shiftTypes EXCEPT ![i].name = name]
            : i \in SetupEdited(shiftTypes, SeedShiftTypes), name \in SetupShiftTypeNames }
    \cup { WithoutEntry(shiftTypes, i) : i \in SetupEdited(shiftTypes, SeedShiftTypes) }

SetupInit ==
    /\ SystemInit
    /\ args = [op |-> "none", edited |-> "none"]
    /\ ret = NoCall

\* POST /api/setup with the positions edited
PostSetupPositions(positions) ==
    /\ storage.currentIds.position + Len(positions) - Cardinality(storage.positions)
           <= 6 + MaxSetupAdds
    /\ LET current == GetSetupRoute(storage)
           body == [restaurant |-> current.restaurant,
                    shiftTypes |-> current.shiftTypes,
                    positions |-> positions]
           out == SetupRoute(storage, body)
       IN  /\ storage' = out.st
           /\ args' = [op |-> "setup", edited |-> "positions"]
           /\ ret' = [op |-> "setup", status |-> out.status]
    /\ UNCHANGED <<lastWrite, deleted, clientVars>>

\* POST /api/setup with the shift types edited
PostSetupShiftTypes(shiftTypes) ==
    /\ storage.currentIds.shiftType + Len(shiftTypes) - Cardinality(storage.shiftTypes)
           <= 4 + MaxSetupAdds
    /\ LET current == GetSetupRoute(storage)
           body == [restaurant |-> current.restaurant,
                    shiftTypes |-> shiftTypes,
                    positions |-> current.positions]
           out == SetupRoute(storage, body)
       IN  /\ storage' = out.st
           /\ args' = [op |-> "setup", edited |-> "shiftTypes"]
           /\ ret' = [op |-> "setup", status |-> out.status]
    /\ UNCHANGED <<lastWrite, deleted, clientVars>>

SetupNext ==
    \/ \E positions \in SetupPositionEdits(GetSetupRoute(storage).positions) :
          PostSetupPositions(positions)
    \/ \E shiftTypes \in SetupShiftTypeEdits(GetSetupRoute(storage).shiftTypes) :
          PostSetupShiftTypes(shiftTypes)

SpecSetup == SetupInit /\ [][SetupNext]_vars

\* ---------------------------------------------------------------------------
\* The shift handlers step by step: a handler runs from one await to the
\* next, and between two of its steps another handler may take a step.  args
\* holds the update and the delete in flight, ret the last read of a shift's
\* lines.
\* ---------------------------------------------------------------------------

\* the most shifts saved in one run
MaxAwaitShifts == 1

\* the employeeId, position and points of each line of a sequence
LineContent(lines) ==
    Map(lines, LAMBDA l : [employeeId |-> l.employeeId, position |-> l.position,
                           points |-> l.points])

AwaitIdle(pc, status) ==
    [pc |-> pc, status |-> status, id |-> 0, found |-> FALSE, rows |-> <<>>,
     shiftData |-> <<>>, existing |-> {}, next |-> 0, old |-> <<>>]

NoRead == [op |-> "none", id |-> 0, during |-> "idle", lines |-> <<>>,
           old |-> <<>>, rows |-> <<>>]

Resting(process) == process.pc \in {"idle", "done"}

AwaitInit ==
    /\ SystemInit
    /\ args = [update |-> AwaitIdle("idle", 0), delete |-> AwaitIdle("idle", 0)]
    /\ ret = NoRead

\* updateShift up to its first await: the shift is replaced and the lines to
\* delete are collected
updateShiftBegin(st, id, shiftData) ==
    LET existingShift == getShift(st, id)[1]
        updatedShift == [existingShift EXCEPT
                            !.date = shiftData.date, !.type = shiftData.type,
                            !.creditCardTips = shiftData.creditCardTips,
                            !.houseTips = shiftData.houseTips,
                            !.cashTips = shiftData.cashTips]
    IN  [st |-> [st EXCEPT !.shifts = { sh \in @ : sh.id # id } \cup {updatedShift}],
         existingEmployees |-> getShiftEmployees(st, id)]

\* updateShift after that await: the collected lines are deleted
updateShiftClear(st, existing) ==
    [st EXCEPT !.shiftEmployees = { se \in @ : se.id \notin existing }]

\* one round of the loop of updateShift up to its await: a line is stored
updateShiftInsert(st, id, employeeData) ==
    [st EXCEPT !.shiftEmployees = @ \cup Range(NewShiftEmployees(st, id, <<employeeData>>)),
               !.currentIds.shiftEmployee = @ + 1]

\* POST /api/shifts with no other handler in flight
AwaitPostShift(body) ==
    /\ Resting(args.update) /\ Resting(args.delete)
    /\ storage.currentIds.shift <= MaxAwaitShifts
    /\ LineRoom(storage, Len(body.results))
    /\ storage' = PostShiftsRoute(storage, body).st
    /\ UNCHANGED <<lastWrite, deleted, clientVars, allocVars>>

\* PUT /api/shifts/:id up to await storage.getShift(id)
PutBegin(id, body) ==
    /\ Resting(args.update)
    /\ LineRoom(storage, Len(body.employees))
    /\ args' = [args EXCEPT !.update =
                    [AwaitIdle("checked", 0) EXCEPT
                        !.id = id,
                        !.found = getShift(storage, id) # <<>>,
                        !.rows = UpdateRows(body.employees),
                        !.shiftData = <<ParsedShiftData(body.shift)>>]]
    /\ UNCHANGED <<ret, serverVars, clientVars>>

\* PUT after that await: 404, or the call of updateShift up to its first
\* await; updateShift throws when the shift is gone, which is answered 500
PutCall ==
    /\ args.update.pc = "checked"
    /\ LET u == args.update
       IN  IF ~u.found
           THEN /\ args' = [args EXCEPT !.update = AwaitIdle("done", 404)]
                /\ UNCHANGED storage
           ELSE IF getShift(storage, u.id) = <<>>
           THEN /\ args' = [args EXCEPT !.update = AwaitIdle("done", 500)]
                /\ UNCHANGED storage
           ELSE LET begun == updateShiftBegin(storage, u.id, u.shiftData[1])
                IN  /\ storage' = begun.st
                    /\ args' = [args EXCEPT !.update =
                                    [u EXCEPT !.pc = "clearing",
                                              !.existing = { se.id : se \in Range(begun.existingEmployees) },
                                              !.old = LineContent(begun.existingEmployees)]]
    /\ UNCHANGED <<ret, lastWrite, deleted, clientVars>>

\* updateShift resumes: the old lines go, the first new line is stored
PutClear ==
    /\ args.update.pc = "clearing"
    /\ LET u == args.update
           cleared == updateShiftClear(storage, u.existing)
       IN  IF Len(u.rows) = 0
           THEN /\ storage' = cleared
                /\ args' = [args EXCEPT !.update = AwaitIdle("done", 200)]
           ELSE /\ storage' = updateShiftInsert(cleared, u.id, u.rows[1])
                /\ args' = [args EXCEPT !.update = [u EXCEPT !.pc = "adding", !.next = 1]]
    /\ UNCHANGED <<ret, lastWrite, deleted, clientVars>>

\* updateShift resumes after a lookup: the next line is stored, or the loop
\* is over and the route answers
PutAdd ==
    /\ args.update.pc = "adding"
    /\ LET u == args.update
       IN  IF u.next = Len(u.rows)
           THEN /\ args' = [args EXCEPT !.update = AwaitIdle("done", 200)]
                /\ UNCHANGED storage
           ELSE /\ storage' = updateShiftInsert(storage, u.id, u.rows[u.next + 1])
                /\ args' = [args EXCEPT !.update = [u EXCEPT !.next = u.next + 1]]
    /\ UNCHANGED <<ret, lastWrite, deleted, clientVars>>

\* DELETE /api/shifts/:id up to await storage.getShift(id)
DeleteBegin(id) ==
    /\ Resting(args.delete)
    /\ args' = [args EXCEPT !.delete =
                    [AwaitIdle("checked", 0) EXCEPT
                        !.id = id, !.found = getShift(storage, id) # <<>>]]
    /\ UNCHANGED <<ret, serverVars, clientVars>>

\* DELETE after that await: 404, or deleteShift, which has no await
DeleteCall ==
    /\ args.delete.pc = "checked"
    /\ LET d == args.delete
       IN  IF ~d.found
           THEN /\ args' = [args EXCEPT !.delete = AwaitIdle("done", 404)]
                /\ UNCHANGED <<storage, deleted>>
           ELSE /\ storage' = deleteShift(storage, d.id)
                /\ deleted' = deleted \cup {d.id}
                /\ args' = [args EXCEPT !.delete = AwaitIdle("done", 204)]
    /\ UNCHANGED <<ret, lastWrite, clientVars>>

\* a handler calls getShiftEmployees(id)
ReadLines(id) ==
    /\ LET u == args.update
           during == IF u.id = id /\ u.pc \in {"clearing", "adding"} THEN u.pc ELSE "idle"
       IN  ret' = [op |-> "getShiftEmployees", id |-> id, during |-> during,
                   lines |-> LineContent(getShiftEmployees(storage, id)),
                   old |-> IF during = "idle" THEN <<>> ELSE u.old,
                   rows |-> IF during = "idle" THEN <<>> ELSE LineContent(u.rows)]
    /\ UNCHANGED <<args, serverVars, clientVars>>

AwaitNext ==
    \/ \E body \in { SaveBody(LifeShift("2024-05-01", <<LineB>>), TRUE) } : AwaitPostShift(body)
    \/ \E id \in 1..MaxAwaitShifts, body \in UpdateBodies : PutBegin(id, body)
    \/ PutCall
    \/ PutClear
    \/ PutAdd
    \/ \E id \in 1..MaxAwaitShifts : DeleteBegin(id)
    \/ DeleteCall
    \/ \E id \in 1..MaxAwaitShifts : ReadLines(id)

SpecAwait == AwaitInit /\ [][AwaitNext]_vars

---------------------------------------------------------------------------
(* Properties of the allocator                                             *)

ArgTotalPoints == RouteTotalPoints(args.employees)

ArgDigitalPool == RAdd(args.creditCardTips, args.houseTips)

Called == ret.op # "none"

\* C1: whenever an allocation ran over lines whose total points is greater
\* than 0, the allocated digitalTips sum to the digital pool within 0.02, the
\* allocated cashTips sum to the cash pool within 0.02, and both validation
\* flags are true.
C1_SumsReconcile ==
    (Called /\ RLt(R(0), ArgTotalPoints)) =>
        /\ RLt(RAbs(RSub(ArgDigitalPool, SumDigital(ret.results))), Tolerance)
        /\ RLt(RAbs(RSub(args.cashTips, SumCash(ret.results))), Tolerance)
        /\ ret.validation.digital
        /\ ret.validation.cash

C1_Witness ==
    /\ Called
    /\ RLt(R(0), ArgTotalPoints)
    /\ Len(args.employees) = 3
    /\ ArgDigitalPool = R(120)
    /\ args.cashTips = R(20)
    /\ \E i \in 1..3 : ret.results[i].digitalTips = R(40)

\* C2: when total points is greater than 0 the allocation returns one result
\* per input line, in input order, result i carrying line i's employeeId,
\* digitalTips = (creditCardTips + houseTips) * points_i / totalPoints and
\* cashTips = cashTips * points_i / totalPoints, unrounded; points 3 and 1
\* with pools 100 and 20 give 75/15 and 25/5.
C2_ProportionalInOrder ==
    (Called /\ RLt(R(0), ArgTotalPoints)) =>
        /\ Len(ret.results) = Len(args.employees)
        /\ \A i \in 1..Len(args.employees) :
              /\ ret.results[i].employeeId = args.employees[i].employeeId
              /\ ret.results[i].points = args.employees[i].points
              /\ RMul(ret.results[i].digitalTips, ArgTotalPoints)
                    = RMul(ArgDigitalPool, args.employees[i].points)
              /\ RMul(ret.results[i].cashTips, ArgTotalPoints)
                    = RMul(args.cashTips, args.employees[i].points)
        /\ ( /\ Map(args.employees, LAMBDA e : e.points) = <<R(3), R(1)>>
             /\ ArgDigitalPool = R(100)
             /\ args.cashTips = R(20) )
           => /\ Map(ret.results, LAMBDA r : r.digitalTips) = <<R(75), R(25)>>
              /\ Map(ret.results, LAMBDA r : r.cashTips) = <<R(15), R(5)>>

C2_Witness ==
    /\ Called
    /\ Map(args.employees, LAMBDA e : e.points) = <<R(3), R(1)>>
    /\ args.employees[1].employeeId # args.employees[2].employeeId
    /\ ArgDigitalPool = R(100)
    /\ args.cashTips = R(20)
    /\ ret.results[1].digitalTips = R(75)

\* C3: calculateEmployeeTips over lines whose total points is 0 (the empty
\* list included) returns no results and flags both pools invalid.
C3_ZeroPointsFlaggedInvalid ==
    (ret.op = "client" /\ IsZero(calculateTotalPoints(args.employees))) =>
        /\ ret.results = <<>>
        /\ ~ret.validation.digital
        /\ ~ret.validation.cash

\* C4: a calculation request whose total points is 0 is rejected with an
\* error and yields no per-employee amounts, and no amount the route returns
\* comes from a division by a total of 0 (such a quotient is not finite).
C4_ZeroPointsRejected ==
    (ret.op = "server") =>
        /\ IsZero(ArgTotalPoints) => (ret.status = 400 /\ ret.results = <<>>)
        /\ ret.status = 200 => ~IsZero(ArgTotalPoints)
        /\ \A i \in 1..Len(ret.results) :
              IsFinite(ret.results[i].digitalTips) /\ IsFinite(ret.results[i].cashTips)

C4_Witness ==
    /\ ret.op = "server"
    /\ Len(args.employees) = 2
    /\ args.employees[1].points = R(1)
    /\ args.employees[2].points = R(-1)
    /\ ret.status = 400

---------------------------------------------------------------------------
(* Properties of the shift lifecycle                                       *)

StoredIds == { sh.id : sh \in storage.shifts }

Updated(id) == id \in StoredIds /\ lastWrite[id].op \in {"update", "edit"}

\* C5: after every successful update of a shift whose lines have total points
\* greater than 0, each persisted line carries the allocation computed afresh
\* from the persisted pools and points.
C5_UpdateRecomputesAllocation ==
    \A id \in StoredIds :
        LET sh == getShift(storage, id)[1]
            lines == getShiftEmployees(storage, id)
            totalPoints == RouteTotalPoints(lines)
        IN  (Updated(id) /\ RLt(R(0), totalPoints)) =>
                \A i \in 1..Len(lines) :
                    LET fresh == AllocateLine(lines[i], totalPoints,
                                     RAdd(sh.creditCardTips, sh.houseTips), sh.cashTips)
                    IN  /\ lines[i].digitalTips = fresh.digitalTips
                        /\ lines[i].cashTips = fresh.cashTips

\* C6: once a saved shift has been updated with M lines, every later read of
\* it (the stored lines, the results, GET /api/shifts/:id) yields exactly the
\* M lines of that update, in order.
C6_ReadsYieldTheUpdateLines ==
    \A id \in StoredIds :
        Updated(id) =>
            /\ Map(getShiftEmployees(storage, id), LAMBDA se :
                   AsLine(se.employeeId, se.position, se.hoursWorked, se.points))
                 = lastWrite[id].lines
            /\ Map(getShiftResults(storage, id), LAMBDA r :
                   AsLine(r.employeeId, r.position, r.hours, r.points))
                 = lastWrite[id].lines
            /\ Map(GetShiftRoute(storage, id).results, LAMBDA r :
                   AsLine(r.employeeId, r.position, r.hours, r.points))
                 = lastWrite[id].lines

\* C7: once deleteShift(id) has run, the shift and every line with that
\* shiftId are gone from the store, the listing has no entry for it, and a
\* read by that id answers not found, in every later state.
C7_DeletedStaysGone ==
    \A id \in deleted :
        /\ getShift(storage, id) = <<>>
        /\ \A se \in storage.shiftEmployees : se.shiftId # id
        /\ getShiftEmployees(storage, id) = <<>>
        /\ getShiftResults(storage, id) = <<>>
        /\ \A i \in 1..Len(ListShiftsRoute(storage)) : ListShiftsRoute(storage)[i].shift.id # id
        /\ GetShiftRoute(storage, id).status = 404

C7_Witness ==
    \E id \in deleted :
        /\ Len(lastWrite[id].lines) = 2
        /\ \E other \in StoredIds : Len(getShiftEmployees(storage, other)) > 0

\* C9: the pointValue and points of a saved line are what its last write
\* persisted whatever happens to the position defaults, and a shift loaded
\* for edit (the position defaults known to the page, every line with hours
\* worked) and saved with its lines untouched keeps the pointValue and points
\* it was loaded with.
C9_DefaultChangeKeepsSavedLines ==
    \A id \in StoredIds :
        /\ PointsOf(getShiftEmployees(storage, id)) = lastWrite[id].rows
        /\ ( /\ lastWrite[id].op = "edit"
             /\ lastWrite[id].positions # <<>>
             /\ \A i \in 1..Len(lastWrite[id].lines) :
                   RLt(R(0), lastWrite[id].lines[i].hours) )
              => lastWrite[id].rows = lastWrite[id].loaded

\* C10: no shift is persisted by a create request whose results have total
\* points 0 or whose shift lacks a required field.
C10_CreateRejectsInvalid ==
    \A id \in DOMAIN lastWrite :
        lastWrite[id].op = "create" =>
            /\ ~lastWrite[id].zeroPoints
            /\ ~lastWrite[id].missingField

---------------------------------------------------------------------------
(* Properties of draft editing                                             *)

PointsConsistent(line) == line.points = RMul(line.hoursWorked, line.pointValue)

\* C8: in every reachable state every line of the draft on the NewShift or
\* EditShift page and every line in the store satisfies
\* points = hoursWorked * pointValue.
C8_PointsAreHoursTimesPointValue ==
    /\ \A i \in 1..Len(shiftDraft.employees) : PointsConsistent(shiftDraft.employees[i])
    /\ \A se \in storage.shiftEmployees : PointsConsistent(se)


\* ---------------------------------------------------------------------------
\* C13..C15 over SpecHours
\* ---------------------------------------------------------------------------

HoursCalled == ret.op = "hours" /\ args.clockIn # <<>> /\ args.clockOut # <<>>

\* the granularity the call names: none, or its number of minutes
ArgGranularity == IF args.rounding = <<>> THEN 0 ELSE args.rounding[1].n

\* minutes from clock-in to clock-out, the clock-out taken on the next day when
\* it is the earlier of the two
ArgMinutes ==
    IF args.clockOut[1] < args.clockIn[1]
    THEN args.clockOut[1] + 24 * 60 - args.clockIn[1]
    ELSE args.clockOut[1] - args.clockIn[1]

\* the hours of m minutes with the minute part rounded to the nearest multiple
\* of g, a half rounded up
HalfUpHours(m, g) == Norm((m \div 60) * 60 + (((2 * (m % 60)) + g) \div (2 * g)) * g, 60)

\* C13: a clock-out earlier than the clock-in is taken as the next day: the
\* hours returned are those of (clock-out + 24 h - clock-in), exactly when the
\* granularity is 0 and within half a granularity otherwise, and are never
\* negative; 22:00 to 02:00 with granularity 0 is 4 hours.
C13_OvernightAddsADay ==
    (HoursCalled /\ args.clockOut[1] < args.clockIn[1]) =>
        /\ ~RLt(ret.hours, R(0))
        /\ args.rounding = <<R(0)>> => ret.hours = Norm(ArgMinutes, 60)
        /\ args.rounding \notin {<<>>, <<R(0)>>} =>
              ~RLt(Norm(ArgGranularity, 120),
                   RAbs(RSub(ret.hours, Norm(ArgMinutes, 60))))
        /\ (args.clockIn = <<1320>> /\ args.clockOut = <<120>> /\ args.rounding = <<R(0)>>)
              => ret.hours = R(4)

C13_Witness ==
    /\ ret.op = "hours"
    /\ args.clockIn = <<1320>>
    /\ args.clockOut = <<120>>
    /\ args.rounding = <<R(0)>>
    /\ ret.hours = R(4)

\* C14: called with granularity 0, or with no granularity, calculateHoursWorked
\* rounds nothing and returns the raw hours between the two times.
C14_NoGranularityNoRounding ==
    (HoursCalled /\ args.rounding \in {<<>>, <<R(0)>>}) =>
        ret.hours = Norm(ArgMinutes, 60)

\* C15: with a granularity g > 0 the hours returned are the whole hours plus
\* the minute part rounded to the nearest multiple of g, a half rounded up,
\* over 60; they differ from the raw hours by at most g/2 minutes; 7 h 07 min
\* with g = 15 is 7 hours.
C15_RoundsHalfUp ==
    (HoursCalled /\ args.rounding \notin {<<>>, <<R(0)>>}) =>
        /\ ret.hours = HalfUpHours(ArgMinutes, ArgGranularity)
        /\ ~RLt(Norm(ArgGranularity, 120), RAbs(RSub(ret.hours, Norm(ArgMinutes, 60))))
        /\ (args.clockIn = <<600>> /\ args.clockOut = <<1027>> /\ ArgGranularity = 15)
              => ret.hours = R(7)


\* ---------------------------------------------------------------------------
\* C12, C16, C18, C19 over SpecApi
\* ---------------------------------------------------------------------------

\* C12: an update or a delete of a shift id that is not stored is answered
\* not found (404) and leaves the stored shifts and lines as they were.
C12_MissingShiftNotFound ==
    [][(args'.op \in {"updateShift", "deleteShift"} /\ getShift(storage, args'.id) = <<>>) =>
          /\ ret'.status = 404
          /\ storage'.shifts = storage.shifts
          /\ storage'.shiftEmployees = storage.shiftEmployees]_vars

C12_Witness ==
    /\ ret.op = "deleteShift"
    /\ ret.status = 404
    /\ args.id \in deleted
    /\ storage.shifts # {}
    /\ storage.shiftEmployees # {}

\* C16: after a save, each persisted line of the new shift (total points
\* greater than 0) carries the proportional share of the persisted pools:
\* digital = (card + house) * points / total, cash = cash * points / total,
\* whatever amounts the request carried.
C16_SavePersistsFreshAllocation ==
    (ret.op = "addShift" /\ ret.status = 201) =>
        LET sh == ret.shift[1]
            lines == getShiftEmployees(storage, sh.id)
            totalPoints == RouteTotalPoints(lines)
        IN  RLt(R(0), totalPoints) =>
                \A i \in 1..Len(lines) :
                    LET fresh == AllocateLine(lines[i], totalPoints,
                                              RouteDigitalPool(sh), sh.cashTips)
                    IN  /\ lines[i].digitalTips = fresh.digitalTips
                        /\ lines[i].cashTips = fresh.cashTips

\* C18: the id a save assigns differs from every id assigned before, the ids
\* of deleted shifts included, and no two stored shifts share an id.
C18_ShiftIdsNeverReused ==
    [][/\ (args'.op = "addShift" /\ ret'.status = 201) =>
             LET id == ret'.shift[1].id
             IN  /\ id \notin DOMAIN lastWrite
                 /\ id \notin deleted
                 /\ id \notin { sh.id : sh \in storage.shifts }
       /\ \A a \in storage'.shifts, b \in storage'.shifts : a.id = b.id => a = b]_vars

C18_Witness ==
    /\ ret.op = "addShift"
    /\ ret.status = 201
    /\ deleted # {}
    /\ ret.shift[1].id \notin deleted
    /\ Cardinality(DOMAIN lastWrite) = 2

\* C19: deleting an employee leaves every stored shift and line as it was,
\* and a later read of a shift returns a result for each of its lines, those
\* of the deleted employee included, with the line's employeeId and position
\* and a name.
C19_EmployeeDeleteKeepsLines ==
    [][/\ args'.op = "deleteEmployee" =>
             /\ storage'.shifts = storage.shifts
             /\ storage'.shiftEmployees = storage.shiftEmployees
       /\ (args'.op = "getShift" /\ ret'.status = 200) =>
             \A se \in Range(getShiftEmployees(storage', args'.id)) :
                 \E i \in 1..Len(ret'.results) :
                     /\ ret'.results[i].employeeId = se.employeeId
                     /\ ret'.results[i].position = se.position
                     /\ ret'.results[i].name # ""]_vars


\* ---------------------------------------------------------------------------
\* C20 over SpecRoster
\* ---------------------------------------------------------------------------

UniqueEmployeeIds(st) ==
    \A a \in st.employees, b \in st.employees : a.employeeId = b.employeeId => a = b

\* the request names an employeeId that a stored employee other than the
\* one being updated has
NamesUsedEmployeeId(st, request) ==
    /\ request.op \in {"addEmployee", "updateEmployee"}
    /\ request.valid
    /\ \E e \in st.employees :
          /\ e.employeeId = request.employeeId
          /\ request.op = "updateEmployee" => e.id # request.id

\* C20: through every sequence of employee creates, updates and deletes no
\* two stored employees share an employeeId, and a create or update naming an
\* employeeId that another stored employee has is rejected and leaves the
\* stored employees as they were.
C20_EmployeeIdsStayUnique ==
    [][/\ UniqueEmployeeIds(storage) /\ UniqueEmployeeIds(storage')
       /\ NamesUsedEmployeeId(storage, args') =>
             /\ ret'.status \in {400, 404}
             /\ storage'.employees = storage.employees]_vars

C20_Witness ==
    /\ ret.op = "updateEmployee"
    /\ ret.status = 400
    /\ args.valid
    /\ args.employeeId = 77
    /\ args.id = 2
    /\ \E e \in storage.employees : e.employeeId = 77 /\ e.id = 10


\* ---------------------------------------------------------------------------
\* C11, C17 over SpecCalc
\* ---------------------------------------------------------------------------

\* the draft has no lines, or a line without employee, position, clock-in or
\* clock-out, or no date, no type, or none of the three pools entered
DraftLacksInput(draft) ==
    \/ Len(draft.employees) = 0
    \/ \E i \in 1..Len(draft.employees) :
          \/ draft.employees[i].employeeId = 0
          \/ draft.employees[i].position = ""
          \/ draft.employees[i].clockIn = <<>>
          \/ draft.employees[i].clockOut = <<>>
    \/ draft.date = ""
    \/ draft.type = ""
    \/ (draft.creditCardTips = <<>> /\ draft.houseTips = <<>> /\ draft.cashTips = <<>>)

DraftTotalPoints(draft) ==
    SumOver(Map(draft.employees, LAMBDA e : e.points), Len(draft.employees))

\* C11: a click on Calculate Tips over a draft that lacks an input sends
\* nothing, and a request whose total points is 0 is answered with an error;
\* either way the page stays on the draft and no calculation is stored.  The
\* results page is reached from the draft only by the answer to a request
\* that was sent, whose total points is not 0, with a calculation stored.
C11_IncompleteDraftStaysDraft ==
    [][/\ (/\ ~args.pending /\ args' # args /\ args'.op = "calculate-tips"
           /\ DraftLacksInput(shiftDraft)) =>
             /\ ~args'.sent
             /\ page' = "new-shift"
             /\ ret'.stored = <<>>
       /\ (args.pending /\ ~args'.pending /\ IsZero(DraftTotalPoints(args.body[1]))) =>
             /\ ret'.status = 400
             /\ page' = "new-shift"
             /\ ret'.stored = <<>>
       /\ (page = "new-shift" /\ page' = "results") =>
             /\ args.pending
             /\ ret'.stored # <<>>
             /\ ~IsZero(DraftTotalPoints(args.body[1]))]_vars

C11_Witness ==
    /\ page = "new-shift"
    /\ args.sent /\ ~args.pending
    /\ ret.status = 400
    /\ ret.stored = <<>>
    /\ IsZero(DraftTotalPoints(args.body[1]))

\* C17: no calculation request and no edit-save request is sent for a shift
\* whose three pools are all zero.
C17_ZeroPoolsNotSubmitted ==
    (args.op \in {"calculate-tips", "updateShift"} /\ args.sent) =>
        ~(/\ IsZero(args.body[1].creditCardTips)
          /\ IsZero(args.body[1].houseTips)
          /\ IsZero(args.body[1].cashTips))


\* ---------------------------------------------------------------------------
\* C29, C30 over SpecAlloc
\* ---------------------------------------------------------------------------

\* two result lists carry the same amounts line by line
SameAmounts(xs, ys) ==
    /\ Len(xs) = Len(ys)
    /\ \A i \in 1..Len(xs) :
          /\ xs[i].employeeId = ys[i].employeeId
          /\ xs[i].digitalTips = ys[i].digitalTips
          /\ xs[i].cashTips = ys[i].cashTips

\* C29: for the same lines and pools the calculate route and the client's
\* calculateEmployeeTips agree: with total points greater than 0 both yield
\* the same digitalTips and cashTips line by line, in the order of the lines;
\* with total points 0 neither yields a result.
C29_ServerAndClientAgree ==
    LET client == calculateEmployeeTips(args.employees, ArgDigitalPool, args.cashTips)
        server == CalculateTipsRoute(args, SeedEmployees)
        other == IF ret.op = "server" THEN client.results ELSE server.results
    IN  Called =>
            /\ RLt(R(0), ArgTotalPoints) =>
                  /\ Len(ret.results) = Len(args.employees)
                  /\ SameAmounts(ret.results, other)
            /\ IsZero(ArgTotalPoints) => (ret.results = <<>> /\ other = <<>>)

C29_Witness ==
    /\ ret.op = "server"
    /\ ret.status = 200
    /\ Len(ret.results) = 2
    /\ args.houseTips = R(20)
    /\ args.creditCardTips = R(100)
    /\ ret.results[1].digitalTips = R(30)
    /\ ret.results[2].digitalTips = R(90)
    /\ SameAmounts(ret.results,
                   calculateEmployeeTips(args.employees, ArgDigitalPool, args.cashTips).results)

\* every line's points and both pools are 0 or more, and the total is above 0
ArgsNonNegative ==
    /\ \A i \in 1..Len(args.employees) : ~RLt(args.employees[i].points, R(0))
    /\ ~RLt(ArgDigitalPool, R(0))
    /\ ~RLt(args.cashTips, R(0))
    /\ RLt(R(0), ArgTotalPoints)

\* C30: with points and pools that are not negative and total points above
\* 0, each allocated digitalTips lies between 0 and the digital pool, each
\* cashTips between 0 and the cash pool, and a line of 0 points gets 0 from
\* both pools.
C30_AllocationsWithinPools ==
    (Called /\ ArgsNonNegative) =>
        /\ Len(ret.results) = Len(args.employees)
        /\ \A i \in 1..Len(ret.results) :
              /\ ~RLt(ret.results[i].digitalTips, R(0))
              /\ ~RLt(ArgDigitalPool, ret.results[i].digitalTips)
              /\ ~RLt(ret.results[i].cashTips, R(0))
              /\ ~RLt(args.cashTips, ret.results[i].cashTips)
              /\ IsZero(args.employees[i].points) =>
                    (IsZero(ret.results[i].digitalTips) /\ IsZero(ret.results[i].cashTips))

C30_Witness ==
    /\ ret.op = "client"
    /\ ArgsNonNegative
    /\ Len(ret.results) = 2
    /\ IsZero(args.employees[1].points)
    /\ ArgDigitalPool = R(120)
    /\ args.cashTips = R(20)
    /\ IsZero(ret.results[1].digitalTips)
    /\ ret.results[2].digitalTips = R(120)
    /\ ret.results[2].cashTips = R(20)


\* ---------------------------------------------------------------------------
\* C21 over SpecSetup
\* ---------------------------------------------------------------------------

\* C21: after every setup save no two stored positions carry the same name
\* and no two stored shift types carry the same name.
C21_SetupNamesStayUnique ==
    /\ \A p \in storage.positions, q \in storage.positions : p.name = q.name => p = q
    /\ \A t \in storage.shiftTypes, u \in storage.shiftTypes : t.name = u.name => t = u


\* ---------------------------------------------------------------------------
\* C22, C24 over SpecAwait
\* ---------------------------------------------------------------------------

\* C22: a read of a shift's lines taken while updateShift is in progress on
\* that shift, no delete of the shift having run, returns the complete old
\* line set or the complete new one, never no lines and never only some of
\* the new lines.
C22_UpdateReplacesLinesAtomically ==
    (ret.op = "getShiftEmployees" /\ ret.during # "idle" /\ ret.id \notin deleted) =>
        (ret.lines = ret.old \/ ret.lines = ret.rows)

\* C24: once no update and no delete is in flight, every stored line's
\* shiftId is the id of a stored shift.
C24_NoLineOutlivesItsShift ==
    (Resting(args.update) /\ Resting(args.delete)) =>
        \A se \in storage.shiftEmployees : \E sh \in storage.shifts : sh.id = se.shiftId


\* ---------------------------------------------------------------------------
\* C23, C26 over SpecApi
\* ---------------------------------------------------------------------------

\* the lines a save request stored, in the order of the request
SavedLines == getShiftEmployees(storage, ret.shift[1].id)

SavedCalculated ==
    /\ args.op = "addShift" /\ ret.status = 201
    /\ RLt(R(0), RouteTotalPoints(args.lines))

\* C23: every line persisted by saving a calculated shift (total points
\* greater than 0) carries the pointValue its line had in the draft, a line
\* of 0 hours included.
C23_SavedLinesKeepDraftPointValue ==
    SavedCalculated =>
        /\ Len(SavedLines) = Len(args.lines)
        /\ \A i \in 1..Len(SavedLines) : SavedLines[i].pointValue = args.lines[i].pointValue

\* C26: every line persisted by a save carries the clockIn, clockOut and
\* pointValue of its own line of the draft, and every line a read of a shift
\* returns carries those of its own stored line, also when one employee is on
\* more than one line.  The pointValue of a line of 0 hours is left to C23.
C26_EachLineKeepsItsOwnTimes ==
    /\ SavedCalculated =>
          /\ Len(SavedLines) = Len(args.lines)
          /\ \A i \in 1..Len(SavedLines) :
                  /\ SavedLines[i].clockIn = args.lines[i].clockIn
                  /\ SavedLines[i].clockOut = args.lines[i].clockOut
                  /\ (~IsZero(args.lines[i].hoursWorked)) =>
                         SavedLines[i].pointValue = args.lines[i].pointValue
    /\ (args.op = "getShift" /\ ret.status = 200) =>
          LET stored == getShiftEmployees(storage, args.id)
          IN  Len(ret.results) = Len(stored) =>
                  \A i \in 1..Len(stored) :
                      /\ ret.results[i].clockIn = stored[i].clockIn
                      /\ ret.results[i].clockOut = stored[i].clockOut
                      /\ IsFinite(stored[i].pointValue) =>
                             ret.results[i].pointValue = stored[i].pointValue


\* ---------------------------------------------------------------------------
\* C25 over Spec
\* ---------------------------------------------------------------------------

\* the fields of each line an untouched edit is to keep
KeptFields(lines) ==
    Map(lines, LAMBDA l : [employeeId |-> l.employeeId, position |-> l.position,
                           clockIn |-> l.clockIn, clockOut |-> l.clockOut,
                           hoursWorked |-> l.hoursWorked, points |-> l.points])

\* C25: a save on the EditShift page of a draft that is the loaded shift as
\* a read returns it leaves the shift with the same number of lines, each
\* with the employeeId, position, clockIn, clockOut, hoursWorked and points
\* it had, also when an employee on the shift has been deleted.
C25_UntouchedEditKeepsLines ==
    [][(/\ page = "edit-shift" /\ page' = "history"
        /\ shiftQuery = <<ShiftQueryFn(storage, shiftDraft.id)>>)
          => KeptFields(getShiftEmployees(storage', shiftDraft.id))
                = KeptFields(getShiftEmployees(storage, shiftDraft.id))]_vars


\* ---------------------------------------------------------------------------
\* C28 over SpecHours
\* ---------------------------------------------------------------------------

\* the page whose updateTime made the call, by the rounding it passed
OtherPage == IF args.rounding = RoundingArg("new-shift") THEN "edit-shift" ELSE "new-shift"

\* C28: for every clock-in and clock-out, the hours one of the two pages
\* derives are the hours the other page derives for the same pair.
C28_BothPagesDeriveSameHours ==
    (HoursCalled /\ args.rounding \in {RoundingArg("new-shift"), RoundingArg("edit-shift")}) =>
        ret.hours = calculateHoursWorked(args.clockIn, args.clockOut, RoundingArg(OtherPage))


\* ---------------------------------------------------------------------------
\* C27 over SpecCalc
\* ---------------------------------------------------------------------------

\* C27: the results kept for the Results page, which the save sends, are
\* always what the calculation answers for the pools and lines of the shift
\* kept with them, also when the draft was edited while the request was in
\* flight.
C27_KeptResultsMatchKeptShift ==
    ret.stored # <<>> =>
        LET kept == ret.stored[1]
            out == CalculateTipsRoute(CalculateBody(kept.shift), storage.employees)
        IN  out.status = 200 /\ out.results = kept.results

====
